---- MODULE Spec2Model ----
(***************************************************************************)
(* Model of the recipe matching and search engines of recipes-miniapp     *)
(* (src/src/recipes.js) with the preference-store read they depend on     *)
(* (src/src/app.js).                                                       *)
(*                                                                         *)
(* JavaScript strings are sequences of one-character strings.  JavaScript  *)
(* values that the code reads dynamically (recipe fields, array entries,   *)
(* the selection) are records [t, s, a]: t is the typeof/Array.isArray     *)
(* tag, s the characters of a string (for a number: of String(number)),    *)
(* a the entries of an array.                                              *)
(***************************************************************************)
EXTENDS Integers, Sequences, FiniteSets, TLC

(***************************************************************************)
(* Bounds of the model.  The scan caps of the source are scaled down so    *)
(* that stores of a few recipes reach them; the source values are given.   *)
(***************************************************************************)
\* longest store built from the whole recipe catalog
MaxRich == 2
\* longest store built from the two-recipe catalog (reaches the search cap and
\* the candidate target below)
MaxWide == 5
\* recipes.js:201 MAX_RECIPES_TO_SCAN = 800; the long stores of the model hold
\* one recipe more, and the scan of a long store yields twice
MAX_RECIPES_TO_SCAN == 13
\* recipes.js:202 TARGET_CANDIDATES = 150
TARGET_CANDIDATES == 3
\* recipes.js:213 chunkSize = 50
chunkSize == 2
\* recipes.js:248 MAX_SCORING_CANDIDATES = 500
MAX_SCORING_CANDIDATES == 5
\* recipes.js:9 this.MAX_RESULTS = 10
MAX_RESULTS == 2
\* recipes.js:685 RECIPE_SEARCH_MAX_RESULTS = 15
RECIPE_SEARCH_MAX_RESULTS == 2
\* recipes.js:686 RECIPE_SEARCH_MAX_SCAN = 1000
RECIPE_SEARCH_MAX_SCAN == 4
\* recipes.js:803 context radius 20 for the ingredients text
IngredientContextChars == 1
\* recipes.js:805 context radius 25 for the instructions text
InstructionContextChars == 2
\* most calls of searchRecipes, and of getSuggestions, that the page has in
\* flight at once
MaxInFlight == 2
\* most ingredients selected when the score alone is examined
MaxSelected == 11
\* longest title and longest term when scoreTermMatch alone is examined
MaxTitleLen == 4
MaxTermLen == 5
\* longest message when parseSubstitutionResponse alone is examined
MaxMsgLen == 5

(***************************************************************************)
(* Strings                                                                 *)
(***************************************************************************)
\* String.prototype.toLowerCase on one character of the model's alphabet
LowerChar(c) == IF c = "A" THEN "a" ELSE IF c = "B" THEN "b" ELSE c

toLowerCase(s) == [k \in 1..Len(s) |-> LowerChar(s[k])]

IsSpace(c) == c = " "

RECURSIVE TrimLeft(_)
TrimLeft(s) == IF s # <<>> /\ IsSpace(Head(s)) THEN TrimLeft(Tail(s)) ELSE s

RECURSIVE TrimRight(_)
TrimRight(s) ==
  IF s # <<>> /\ IsSpace(s[Len(s)]) THEN TrimRight(SubSeq(s, 1, Len(s) - 1)) ELSE s

\* String.prototype.trim
trim(s) == TrimRight(TrimLeft(s))

\* String.prototype.startsWith
startsWith(s, t) == Len(t) <= Len(s) /\ SubSeq(s, 1, Len(t)) = t

\* String.prototype.indexOf, 0-based, -1 when t does not occur in s
RECURSIVE IndexFrom(_, _, _)
IndexFrom(s, t, k) ==
  IF k + Len(t) > Len(s) THEN -1
  ELSE IF SubSeq(s, k + 1, k + Len(t)) = t THEN k
  ELSE IndexFrom(s, t, k + 1)

indexOf(s, t) == IndexFrom(s, t, 0)

\* String.prototype.includes
includes(s, t) == indexOf(s, t) # -1

\* String.prototype.split(/\s+/) followed by .filter(t => t.length > 0)
RECURSIVE SplitWords(_, _)
SplitWords(s, cur) ==
  IF s = <<>> THEN (IF cur = <<>> THEN <<>> ELSE <<cur>>)
  ELSE IF IsSpace(Head(s))
       THEN (IF cur = <<>> THEN <<>> ELSE <<cur>>) \o SplitWords(Tail(s), <<>>)
       ELSE SplitWords(Tail(s), Append(cur, Head(s)))

\* String.prototype.split(/\s+/) as scoreTermMatch uses it: empty pieces are kept
RECURSIVE SplitRuns(_, _, _)
SplitRuns(s, cur, inRun) ==
  IF s = <<>> THEN <<cur>>
  ELSE IF IsSpace(Head(s))
       THEN (IF inRun THEN SplitRuns(Tail(s), cur, TRUE)
             ELSE <<cur>> \o SplitRuns(Tail(s), <<>>, TRUE))
       ELSE SplitRuns(Tail(s), Append(cur, Head(s)), FALSE)

(***************************************************************************)
(* JavaScript values                                                       *)
(***************************************************************************)
Undefined == [t |-> "undefined", s |-> <<>>, a |-> <<>>]
Str(s) == [t |-> "string", s |-> s, a |-> <<>>]
\* the number 5: s holds String(5)
Num5 == [t |-> "number", s |-> <<"5">>, a |-> <<>>]
Arr(a) == [t |-> "array", s |-> <<>>, a |-> a]

\* ToBoolean: undefined and "" are falsy; 5, arrays and other strings are truthy
Truthy(v) == v.t = "array" \/ v.t = "number" \/ (v.t = "string" /\ v.s # <<>>)

IsString(v) == v.t = "string"
IsArray(v) == v.t = "array"

\* String(v) as Array.prototype.join and the + operator apply it to an entry
ToStr(v) == IF v.t = "undefined" THEN <<>> ELSE v.s

(***************************************************************************)
(* Recipes.  A recipe is [id, title, ingredients, normalizedIngredients,   *)
(* instructions]; id is the primary key, the other fields are JavaScript   *)
(* values.                                                                 *)
(***************************************************************************)
\* RecipeSuggestionEngine.normalizeIngredient; applied to a non-string it throws
normalizeIngredient(s) == trim(toLowerCase(s))

\* the inclusion test of checkIngredientMatch (normalized recipe entry, ingredient)
CheckPredicate(normalized, ingredient) ==
  \/ includes(normalized, ingredient)
  \/ (Len(ingredient) > Len(normalized) /\ includes(ingredient, normalized))

\* variant: the forward inclusion alone
ListPredicate_forwardOnly(recipeIng, normalizedSelected) ==
  includes(recipeIng, normalizedSelected)

\* the inclusion test of matchIngredientsInList (recipe entry, selected ingredient)
ListPredicate(recipeIng, normalizedSelected) ==
  IF includes(recipeIng, normalizedSelected) THEN TRUE
  ELSE IF Len(normalizedSelected) > Len(recipeIng)
          /\ includes(normalizedSelected, recipeIng) THEN TRUE
  ELSE FALSE

\* the entries checkIngredientMatch walks: normalizedIngredients, then ingredients
CheckEntries(recipe) ==
  (IF Truthy(recipe.normalizedIngredients) /\ IsArray(recipe.normalizedIngredients)
   THEN recipe.normalizedIngredients.a ELSE <<>>)
  \o
  (IF Truthy(recipe.ingredients) /\ IsArray(recipe.ingredients)
   THEN recipe.ingredients.a ELSE <<>>)

\* the walk: "true" at the first matching entry, "throw" at a non-string entry
\* reached before any match, "false" at the end
RECURSIVE CheckWalk(_, _)
CheckWalk(entries, ingredient) ==
  IF entries = <<>> THEN "false"
  ELSE IF ~IsString(Head(entries)) THEN "throw"
  ELSE IF CheckPredicate(normalizeIngredient(Head(entries).s), ingredient) THEN "true"
  ELSE CheckWalk(Tail(entries), ingredient)

\* variant: the filter also admits a recipe whose instructions name the ingredient
checkIngredientMatch_orInstructions(recipe, ingredient) ==
  IF IsString(recipe.instructions)
     /\ includes(toLowerCase(recipe.instructions.s), ingredient)
  THEN "true"
  ELSE CheckWalk(CheckEntries(recipe), ingredient)

checkIngredientMatch(recipe, ingredient) == CheckWalk(CheckEntries(recipe), ingredient)

\* matchIngredientsInList throws when forEach meets a non-string entry, or when
\* normalizedIngredients is truthy and has no forEach (a string, a number)
ListThrows(recipe) ==
  /\ Truthy(recipe.ingredients) /\ IsArray(recipe.ingredients)
  /\ \/ \E k \in 1..Len(recipe.ingredients.a) : ~IsString(recipe.ingredients.a[k])
     \/ Truthy(recipe.normalizedIngredients) /\ ~IsArray(recipe.normalizedIngredients)
     \/ /\ IsArray(recipe.normalizedIngredients)
        /\ \E k \in 1..Len(recipe.normalizedIngredients.a) :
              ~IsString(recipe.normalizedIngredients.a[k])

\* allIngredientsSet of matchIngredientsInList
AllIngredients(recipe) ==
  {normalizeIngredient(recipe.ingredients.a[k].s) : k \in 1..Len(recipe.ingredients.a)}
  \cup
  (IF IsArray(recipe.normalizedIngredients)
   THEN {normalizeIngredient(recipe.normalizedIngredients.a[k].s) :
           k \in 1..Len(recipe.normalizedIngredients.a)}
   ELSE {})

FoundInList(recipe, selectedIng) ==
  \E recipeIng \in AllIngredients(recipe) :
     ListPredicate(recipeIng, normalizeIngredient(selectedIng))

\* matchIngredientsInList (for a recipe on which it does not throw)
matchIngredientsInList(recipe, selectedIngredients) ==
  IF ~Truthy(recipe.ingredients) \/ ~IsArray(recipe.ingredients)
  THEN [count |-> 0, matched |-> <<>>]
  ELSE LET matched == SelectSeq(selectedIngredients,
                                LAMBDA ing : FoundInList(recipe, ing))
       IN [count |-> Len(matched), matched |-> matched]

matchIngredientsInInstructions(recipe, selectedIngredients) ==
  IF ~Truthy(recipe.instructions) \/ ~IsString(recipe.instructions) THEN 0
  ELSE LET instructionsLower == toLowerCase(recipe.instructions.s)
       IN Len(SelectSeq(selectedIngredients,
                LAMBDA ing : includes(instructionsLower, normalizeIngredient(ing))))

\* scoreRecipe.  score is the exact rational scoreN / totalSelected:
\* scoreN = (primaryMatches*1000 + secondaryMatches*100) * n + primaryMatches*100
\* score * n for a selection of n >= 1 ingredients: score is
\* primaryMatches*1000 + secondaryMatches*100 + (primaryMatches/n)*100
Score(primaryMatches, secondaryMatches, n) ==
  (primaryMatches * 1000 + secondaryMatches * 100) * n + primaryMatches * 100

scoreRecipe(recipe, selectedIngredients) ==
  LET ingredientMatch == matchIngredientsInList(recipe, selectedIngredients)
      primaryMatches == ingredientMatch.count
      secondaryMatches == matchIngredientsInInstructions(recipe, selectedIngredients)
      n == Len(selectedIngredients)
  IN [recipe |-> recipe.id,
      scoreN |-> Score(primaryMatches, secondaryMatches, n),
      primaryMatches |-> primaryMatches,
      secondaryMatches |-> secondaryMatches,
      totalSelected |-> n,
      matchedIngredients |-> ingredientMatch.matched]

Abs(x) == IF x < 0 THEN -x ELSE x

\* variant: the comparator orders by ascending score
CompareScored_ascending(a, b) ==
  IF Abs(b.scoreN - a.scoreN) * 10 > a.totalSelected THEN a.scoreN - b.scoreN
  ELSE IF b.primaryMatches # a.primaryMatches THEN a.primaryMatches - b.primaryMatches
  ELSE a.secondaryMatches - b.secondaryMatches

\* the comparator of scoredRecipes.sort: negative when a sorts before b

CompareScored(a, b) ==
  IF Abs(b.scoreN - a.scoreN) * 10 > a.totalSelected THEN b.scoreN - a.scoreN
  ELSE IF b.primaryMatches # a.primaryMatches THEN b.primaryMatches - a.primaryMatches
  ELSE b.secondaryMatches - a.secondaryMatches

\* Array.prototype.sort is stable: x, taken after the elements of sorted, goes
\* before the first element it strictly precedes
RECURSIVE InsertScored(_, _)
InsertScored(x, sorted) ==
  IF sorted = <<>> THEN <<x>>
  ELSE IF CompareScored(x, Head(sorted)) < 0 THEN <<x>> \o sorted
  ELSE <<Head(sorted)>> \o InsertScored(x, Tail(sorted))

RECURSIVE SortScored(_, _)
SortScored(rest, sorted) ==
  IF rest = <<>> THEN sorted
  ELSE SortScored(Tail(rest), InsertScored(Head(rest), sorted))

\* variant: no cap
Take_all(s, k) == s

\* Array.prototype.slice(0, k), and Dexie's limit(k) on a table's listing
Take(s, k) == SubSeq(s, 1, IF Len(s) < k THEN Len(s) ELSE k)

(***************************************************************************)
(* The candidate scan of findMatchingRecipes                               *)
(***************************************************************************)
\* the for loop over normalizedSelected with its break
RECURSIVE AnyIngredientMatches(_, _)
AnyIngredientMatches(recipe, ingredients) ==
  IF ingredients = <<>> THEN "false"
  ELSE LET r == checkIngredientMatch(recipe, Head(ingredients))
       IN IF r = "false" THEN AnyIngredientMatches(recipe, Tail(ingredients)) ELSE r

HasId(cands, id) == \E k \in 1..Len(cands) : cands[k].id = id

\* one chunk.forEach: [thrown, cands]
RECURSIVE ProcessChunk(_, _, _, _)
ProcessChunk(chunk, cands, disliked, sel) ==
  IF chunk = <<>> THEN [thrown |-> FALSE, cands |-> cands]
  ELSE LET recipe == Head(chunk)
       IN IF recipe.id \in disliked \/ HasId(cands, recipe.id)
          THEN ProcessChunk(Tail(chunk), cands, disliked, sel)
          ELSE LET r == AnyIngredientMatches(recipe, sel)
               IN IF r = "throw" THEN [thrown |-> TRUE, cands |-> cands]
                  ELSE ProcessChunk(Tail(chunk),
                                    IF r = "true" THEN Append(cands, recipe) ELSE cands,
                                    disliked, sel)

\* the chunk loop from index i up to its next await or its end:
\* [st, i, cands], st one of "yield", "end", "throw"
\* the chunk loop without the early termination
RECURSIVE RunScan_noTarget(_, _, _, _, _)
RunScan_noTarget(recipes, i, cands, disliked, sel) ==
  IF ~(i < Len(recipes)) THEN [st |-> "end", i |-> i, cands |-> cands]
  ELSE LET chunk == SubSeq(recipes, i + 1,
                           IF i + chunkSize < Len(recipes) THEN i + chunkSize
                           ELSE Len(recipes))
           p == ProcessChunk(chunk, cands, disliked, sel)
       IN IF p.thrown THEN [st |-> "throw", i |-> i, cands |-> p.cands]
          ELSE IF i > 0 /\ i % (chunkSize * 3) = 0
               THEN [st |-> "yield", i |-> i, cands |-> p.cands]
          ELSE RunScan_noTarget(recipes, i + chunkSize, p.cands, disliked, sel)

\* the chunk loop with a yield after every chunk
RECURSIVE RunScan_yieldEachChunk(_, _, _, _, _)
RunScan_yieldEachChunk(recipes, i, cands, disliked, sel) ==
  IF ~(i < Len(recipes)) THEN [st |-> "end", i |-> i, cands |-> cands]
  ELSE LET chunk == SubSeq(recipes, i + 1,
                           IF i + chunkSize < Len(recipes) THEN i + chunkSize
                           ELSE Len(recipes))
           p == ProcessChunk(chunk, cands, disliked, sel)
       IN IF p.thrown THEN [st |-> "throw", i |-> i, cands |-> p.cands]
          ELSE IF Len(p.cands) >= TARGET_CANDIDATES
               THEN [st |-> "end", i |-> i, cands |-> p.cands]
          ELSE [st |-> "yield", i |-> i, cands |-> p.cands]

RECURSIVE RunScan(_, _, _, _, _)
RunScan(recipes, i, cands, disliked, sel) ==
  IF ~(i < Len(recipes)) THEN [st |-> "end", i |-> i, cands |-> cands]
  ELSE LET chunk == SubSeq(recipes, i + 1,
                           IF i + chunkSize < Len(recipes) THEN i + chunkSize
                           ELSE Len(recipes))
           p == ProcessChunk(chunk, cands, disliked, sel)
       IN IF p.thrown THEN [st |-> "throw", i |-> i, cands |-> p.cands]
          ELSE IF Len(p.cands) >= TARGET_CANDIDATES
               THEN [st |-> "end", i |-> i, cands |-> p.cands]
          ELSE IF i > 0 /\ i % (chunkSize * 3) = 0
               THEN [st |-> "yield", i |-> i, cands |-> p.cands]
          ELSE RunScan(recipes, i + chunkSize, p.cands, disliked, sel)

\* variant: the filter keeps every scored recipe
ZeroMatchFilter_keepAll(result) == TRUE

\* the filter before the slice
ZeroMatchFilter(result) == result.primaryMatches > 0 \/ result.secondaryMatches > 0

\* scoring, sort, zero-match filter and slice: [thrown, topMatches]

ScoreAndRank(cands, sel) ==
  LET candidates == Take(cands, MAX_SCORING_CANDIDATES)
  IN IF \E k \in 1..Len(candidates) : ListThrows(candidates[k])
     THEN [thrown |-> TRUE, topMatches |-> <<>>]
     ELSE LET scoredRecipes == [k \in 1..Len(candidates) |->
                                  scoreRecipe(candidates[k], sel)]
              sorted == SortScored(scoredRecipes, <<>>)
          IN [thrown |-> FALSE,
              topMatches |-> Take(SelectSeq(sorted, ZeroMatchFilter), MAX_RESULTS)]

(***************************************************************************)
(* Recipe title search.  Scores are kept exactly, in units of 1/600: the   *)
(* tiers 1.0, 0.9, 0.8, 0.7 are 600, 540, 480, 420, and ratio * 0.5 is     *)
(* 300 * si / length (an integer for the term lengths of the model).       *)
(***************************************************************************)
\* the greedy subsequence scan of scoreTermMatch: the final si
RECURSIVE FuzzyScan(_, _, _)
FuzzyScan(term, titleLower, si) ==
  IF titleLower = <<>> \/ ~(si < Len(term)) THEN si
  ELSE FuzzyScan(term, Tail(titleLower),
                 IF term[si + 1] = Head(titleLower) THEN si + 1 ELSE si)

\* the tiers with the word-boundary test before the substring test
scoreTermMatch_wordFirst(term, titleLower) ==
  IF titleLower = term THEN 600
  ELSE IF startsWith(titleLower, term) THEN 540
  ELSE LET words == SplitRuns(titleLower, <<>>, FALSE)
       IN IF \E k \in 1..Len(words) : startsWith(words[k], term) THEN 420
          ELSE IF includes(titleLower, term) THEN 480
          ELSE LET si == FuzzyScan(term, titleLower, 0)
               IN IF si * 10 >= 6 * Len(term) THEN (300 * si) \div Len(term) ELSE 0

\* the tiers with a fuzzy threshold of 0.5
scoreTermMatch_halfRatio(term, titleLower) ==
  IF titleLower = term THEN 600
  ELSE IF startsWith(titleLower, term) THEN 540
  ELSE IF includes(titleLower, term) THEN 480
  ELSE LET words == SplitRuns(titleLower, <<>>, FALSE)
       IN IF \E k \in 1..Len(words) : startsWith(words[k], term) THEN 420
          ELSE LET si == FuzzyScan(term, titleLower, 0)
               IN IF si * 10 >= 5 * Len(term) THEN (300 * si) \div Len(term) ELSE 0

scoreTermMatch(term, titleLower) ==
  IF titleLower = term THEN 600
  ELSE IF startsWith(titleLower, term) THEN 540
  ELSE IF includes(titleLower, term) THEN 480
  ELSE LET words == SplitRuns(titleLower, <<>>, FALSE)
       IN IF \E k \in 1..Len(words) : startsWith(words[k], term) THEN 420
          ELSE LET si == FuzzyScan(term, titleLower, 0)
               IN IF si * 10 >= 6 * Len(term) THEN (300 * si) \div Len(term) ELSE 0

RECURSIVE SumScores(_, _)
SumScores(terms, titleLower) ==
  IF terms = <<>> THEN 0
  ELSE scoreTermMatch(Head(terms), titleLower) + SumScores(Tail(terms), titleLower)

scoreRecipeTitle(terms, titleLower) ==
  [matchedCount |-> Len(SelectSeq(terms,
                      LAMBDA term : scoreTermMatch(term, titleLower) > 0)),
   totalScore |-> SumScores(terms, titleLower)]

\* findMatchingTerms for a string text
findMatchingTerms(terms, text) ==
  IF text = <<>> THEN <<>>
  ELSE SelectSeq(terms, LAMBDA term : includes(toLowerCase(text), term))

\* Array.prototype.join
RECURSIVE Join(_, _)
Join(entries, sep) ==
  IF entries = <<>> THEN <<>>
  ELSE IF Len(entries) = 1 THEN ToStr(entries[1])
  ELSE ToStr(Head(entries)) \o sep \o Join(Tail(entries), sep)

\* String(v) for a field value: an array is joined with ","
ToText(v) == IF v.t = "array" THEN Join(v.a, <<",">>) ELSE ToStr(v)

Max(x, y) == IF x > y THEN x ELSE y
Min(x, y) == IF x < y THEN x ELSE y

\* variant: the window without the marks of truncation
Snippet_noEllipsis(text, pos, term, contextChars) ==
  trim(SubSeq(text, Max(0, pos - contextChars) + 1,
              Min(Len(text), pos + Len(term) + contextChars)))

\* the snippet buildContextSnippet pushes for a term found at pos
Snippet(text, pos, term, contextChars) ==
  LET start == Max(0, pos - contextChars)
      end == Min(Len(text), pos + Len(term) + contextChars)
  IN (IF start > 0 THEN <<".", ".", ".">> ELSE <<>>)
     \o trim(SubSeq(text, start + 1, end))
     \o (IF end < Len(text) THEN <<".", ".", ".">> ELSE <<>>)

\* the loop body of buildContextSnippet: the list of snippets
\* the loop without its limit of 3 keyword contexts
RECURSIVE SnippetLoop_noLimit(_, _, _, _, _)
SnippetLoop_noLimit(text, matchedTerms, contextChars, seen, snippets) ==
  IF matchedTerms = <<>> THEN snippets
  ELSE LET term == Head(matchedTerms)
           pos == indexOf(toLowerCase(text), term)
       IN IF pos = -1 \/ term \in seen
          THEN SnippetLoop_noLimit(text, Tail(matchedTerms), contextChars, seen, snippets)
          ELSE SnippetLoop_noLimit(text, Tail(matchedTerms), contextChars,
                                   seen \cup {term},
                                   Append(snippets, Snippet(text, pos, term, contextChars)))

RECURSIVE SnippetLoop(_, _, _, _, _)
SnippetLoop(text, matchedTerms, contextChars, seen, snippets) ==
  IF matchedTerms = <<>> THEN snippets
  ELSE LET term == Head(matchedTerms)
           pos == indexOf(toLowerCase(text), term)
       IN IF pos = -1 \/ term \in seen
          THEN SnippetLoop(text, Tail(matchedTerms), contextChars, seen, snippets)
          ELSE LET next == Append(snippets, Snippet(text, pos, term, contextChars))
               IN IF Len(next) >= 3 THEN next
                  ELSE SnippetLoop(text, Tail(matchedTerms), contextChars,
                                   seen \cup {term}, next)

buildContextSnippet(text, matchedTerms, contextChars) ==
  IF text = <<>> \/ matchedTerms = <<>> THEN <<>>
  ELSE LET snippets == SnippetLoop(text, matchedTerms, contextChars, {}, <<>>)
           JoinStr[k \in 0..Len(snippets)] ==
             IF k = 0 THEN <<>>
             ELSE IF k = 1 THEN snippets[1]
             ELSE JoinStr[k - 1] \o <<" ", " ">> \o snippets[k]
       IN JoinStr[Len(snippets)]

\* one iteration of the for loop of searchRecipes:
\* [st |-> "skip"], [st |-> "throw"] or [st |-> "hit", hit |-> ...]
TotalMatched_sum(titleMatched, bodyMatched) == titleMatched + bodyMatched

\* totalMatched = Math.max(titleMatched, bodyMatched)
TotalMatched(titleMatched, bodyMatched) == Max(titleMatched, bodyMatched)

SearchOne(recipe, terms) ==
  IF ~Truthy(recipe.title) THEN [st |-> "skip"]
  ELSE IF ~IsString(recipe.title) THEN [st |-> "throw"]
  ELSE IF Truthy(recipe.ingredients) /\ ~IsArray(recipe.ingredients)
       THEN [st |-> "throw"]
  ELSE
    LET titleLower == toLowerCase(recipe.title.s)
        title == scoreRecipeTitle(terms, titleLower)
        ingredientsText == IF Truthy(recipe.ingredients)
                           THEN Join(recipe.ingredients.a, <<",", " ">>) ELSE <<>>
        instructionsText == IF Truthy(recipe.instructions)
                            THEN recipe.instructions ELSE Str(<<>>)
        bodyText == ingredientsText \o <<" ">> \o ToText(instructionsText)
        bodyMatched == Len(findMatchingTerms(terms, bodyText))
        totalMatched == TotalMatched(title.matchedCount, bodyMatched)
        hitInTitle == title.matchedCount > 0
        bodyOnly == ~hitInTitle /\ bodyMatched > 0
        ingTerms == findMatchingTerms(terms, ingredientsText)
    IN IF totalMatched = 0 THEN [st |-> "skip"]
       ELSE IF bodyOnly /\ Truthy(instructionsText) /\ ~IsString(instructionsText)
            THEN [st |-> "throw"]
       ELSE [st |-> "hit",
             hit |-> [recipe |-> recipe.id,
                      matchedCount |-> totalMatched,
                      totalScore |-> title.totalScore * 2 + bodyMatched * 180,
                      totalTerms |-> Len(terms),
                      hitInTitle |-> hitInTitle,
                      contextSnippet |->
                        IF ~bodyOnly THEN <<>>
                        ELSE IF ingTerms # <<>>
                             THEN buildContextSnippet(ingredientsText, ingTerms,
                                                      IngredientContextChars)
                        ELSE LET insTerms ==
                                   findMatchingTerms(terms, instructionsText.s)
                             IN IF insTerms # <<>>
                                THEN buildContextSnippet(instructionsText.s, insTerms,
                                                         InstructionContextChars)
                                ELSE <<>>]]

\* the for loop of searchRecipes: [thrown, scored]
RECURSIVE SearchLoop(_, _, _)
SearchLoop(recipes, terms, scored) ==
  IF recipes = <<>> THEN [thrown |-> FALSE, scored |-> scored]
  ELSE LET r == SearchOne(Head(recipes), terms)
       IN IF r.st = "throw" THEN [thrown |-> TRUE, scored |-> scored]
          ELSE SearchLoop(Tail(recipes), terms,
                          IF r.st = "hit" THEN Append(scored, r.hit) ELSE scored)

\* variant: the comparator does not look at hitInTitle
CompareHits_noTitle(a, b) ==
  IF b.matchedCount # a.matchedCount THEN b.matchedCount - a.matchedCount
  ELSE b.totalScore - a.totalScore

\* variant: the comparator looks at hitInTitle alone
CompareHits_titleOnly(a, b) ==
  IF a.hitInTitle # b.hitInTitle THEN (IF a.hitInTitle THEN -1 ELSE 1) ELSE 0

\* the comparator of scored.sort: negative when a sorts before b
CompareHits(a, b) ==
  IF a.hitInTitle # b.hitInTitle THEN (IF a.hitInTitle THEN -1 ELSE 1)
  ELSE IF b.matchedCount # a.matchedCount THEN b.matchedCount - a.matchedCount
  ELSE b.totalScore - a.totalScore

RECURSIVE InsertHit(_, _)
InsertHit(x, sorted) ==
  IF sorted = <<>> THEN <<x>>
  ELSE IF CompareHits(x, Head(sorted)) < 0 THEN <<x>> \o sorted
  ELSE <<Head(sorted)>> \o InsertHit(x, Tail(sorted))

RECURSIVE SortHits(_, _)
SortHits(rest, sorted) ==
  IF rest = <<>> THEN sorted
  ELSE SortHits(Tail(rest), InsertHit(Head(rest), sorted))

\* query.toLowerCase().trim().split(/\s+/).filter(t => t.length > 0)
SearchTerms(query) == SplitWords(trim(toLowerCase(query)), <<>>)

(***************************************************************************)
(* The two engines as functions of what they read: the value a call        *)
(* resolves to once its queries have answered                              *)
(***************************************************************************)
RECURSIVE ScanToEnd(_, _, _, _, _)
ScanToEnd(recipes, i, cands, disliked, sel) ==
  LET r == RunScan(recipes, i, cands, disliked, sel)
  IN IF r.st = "yield" THEN ScanToEnd(recipes, r.i + chunkSize, r.cands, disliked, sel)
     ELSE r

MatchResult(recipes, disliked, sel) ==
  LET r == ScanToEnd(recipes, 0, <<>>, disliked, sel)
  IN IF r.st = "throw" THEN <<>>
     ELSE LET ranked == ScoreAndRank(r.cands, sel)
          IN IF ranked.thrown THEN <<>> ELSE ranked.topMatches

SearchResult(recipes, terms) ==
  LET r == SearchLoop(recipes, terms, <<>>)
  IN IF r.thrown THEN <<>>
     ELSE Take(SortHits(r.scored, <<>>), RECIPE_SEARCH_MAX_RESULTS)

(***************************************************************************)
(* The stores, selections and queries the model draws from                 *)
(***************************************************************************)
Recipe(title, ingredients, normalizedIngredients, instructions) ==
  [id |-> 0, title |-> title, ingredients |-> ingredients,
   normalizedIngredients |-> normalizedIngredients, instructions |-> instructions]

\* ingredients ["A b"], instructions "b c": "a" matches it forward
rForward ==
  Recipe(Str(<<"a">>), Arr(<<Str(<<"A", " ", "b">>)>>), Undefined,
         Str(<<"b", " ", "c">>))
\* ingredients ["b"], instructions "a c b": "a" and "c" occur in the instructions only
rInstr ==
  Recipe(Str(<<"c">>), Arr(<<Str(<<"b">>)>>), Undefined,
         Str(<<"a", " ", "c", " ", "b">>))
\* ingredients and normalizedIngredients ["a", "c"], instructions "a c"
rFull ==
  Recipe(Str(<<"a", "b">>), Arr(<<Str(<<"a">>), Str(<<"c">>)>>),
         Arr(<<Str(<<"a">>), Str(<<"c">>)>>), Str(<<"a", " ", "c">>))
\* normalizedIngredients ["a"] and no ingredients, no instructions
rNormOnly ==
  Recipe(Str(<<"a", "c", "b">>), Undefined, Arr(<<Str(<<"a">>)>>), Undefined)
\* ingredients ["a", 5]: an entry that is not a string
rBadEntry ==
  Recipe(Str(<<"b">>), Arr(<<Str(<<"a">>), Num5>>), Undefined, Str(<<"b">>))
\* title 5: a title that is not a string
rBadTitle ==
  Recipe(Num5, Arr(<<Str(<<"c">>)>>), Undefined, Str(<<"a">>))
\* instructions 5: instructions that are not a string
rBadInstr ==
  Recipe(Str(<<"b">>), Arr(<<Str(<<"c">>)>>), Undefined, Num5)

RichCatalog == {rForward, rInstr, rFull, rNormOnly, rBadEntry, rBadTitle, rBadInstr}
WideCatalog == {rForward, rFull}

\* the table db.recipes for a listing of catalog recipes: ids are the positions
StoreOf(listing) == [k \in 1..Len(listing) |-> [listing[k] EXCEPT !.id = k]]

Listings(catalog, lo, hi) == UNION {[1..n -> catalog] : n \in lo..hi}

\* stores one recipe longer than the scan cap: rInstr throughout but for rFull
\* at the given positions (none; the first and the one past the cap; the first
\* of the chunk after the first yield)
LongListings ==
  {[k \in 1..(MAX_RECIPES_TO_SCAN + 1) |-> IF k \in S THEN rFull ELSE rInstr] :
     S \in {{}, {1, MAX_RECIPES_TO_SCAN + 1}, {4 * chunkSize + 1}}}

Statuses == {"none", "like", "dislike"}

Selections ==
  {Undefined,
   Arr(<<>>),
   Arr(<<Str(<<"a">>)>>),
   Arr(<<Str(<<"c">>)>>),
   Arr(<<Str(<<"a">>), Str(<<"c">>)>>),
   Arr(<<Str(<<"a", " ", "b">>)>>),
   Arr(<<Str(<<"A", " ">>)>>),
   Arr(<<Num5>>)}

Queries ==
  {<<>>,
   <<" ">>,
   <<"a">>,
   <<"a", "b">>,
   <<"b", " ", "c">>,
   <<"a", " ", "a">>,
   <<" ", "C">>}

(***************************************************************************)
(* State                                                                   *)
(***************************************************************************)
VARIABLES
  store,                \* db.recipes, in listing order
  library,              \* db.recipeLibrary: recipe id -> status ("none": no entry)
  dbAvailable,          \* window.db is set
  console,              \* the messages passed to console.error, with the error's kind
  fm_pc,                \* findMatchingRecipes: where the call is
  selectedIngredients,  \* its argument
  normalizedSelected,
  dislikedIds,
  recipesToScan,
  scan_i,               \* i of the chunk loop
  candidateRecipesMap,  \* the candidates in insertion order
  fm_result,            \* the value the call resolved to
  fm_queries,           \* store queries the call has issued
  s_pc,                 \* searchRecipes: where the call is
  query,                \* its argument
  s_result,             \* the value the call resolved to
  s_queries,            \* store queries the call has issued
  currentSuggestions,   \* recipeEngine.currentSuggestions
  searchInput,          \* the value of the #recipe-search input
  debounceTimer,        \* the pending debounce timer of the input handler
  searches,             \* the calls of searchRecipes the handler has in flight
  shown,                \* #recipe-search-results: displayed or not, and what
  selection,            \* the ingredients selected in the pantry
  suggestionCalls,      \* the calls of getSuggestions loadSuggestions awaits
  lastRequested,        \* the selection the latest loadSuggestions read
  renderedSuggestions,  \* #recipe-suggestions: loading, or the list rendered
  scoring,              \* a function examined alone: its arguments and its value
  editor,               \* substitutionEditor: the fields of the SubstitutionEditor
  fetches,              \* the calls of fetchSubstitutions submitPrompt awaits
  ingredientsTable,     \* db.ingredients: name -> frequency
  saves,                \* the calls of saveRecipe in flight
  renders,              \* the calls of renderSuggestions in flight
  timers,               \* the timers set with setTimeout and not yet fired or cleared
  lastInput             \* the latest input event: its query, and the time since

envVars == <<store, library, dbAvailable>>
fmVars == <<fm_pc, selectedIngredients, normalizedSelected, dislikedIds, recipesToScan,
            scan_i, candidateRecipesMap, fm_result, fm_queries>>
sVars == <<s_pc, query, s_result, s_queries>>
uiVars == <<searchInput, debounceTimer, searches, shown, selection, suggestionCalls,
            lastRequested, renderedSuggestions>>
timerVars == <<timers, lastInput>>
appVars == <<editor, fetches, ingredientsTable, saves, renders, timers, lastInput>>
vars == <<store, library, dbAvailable, console, fm_pc, selectedIngredients,
          normalizedSelected, dislikedIds, recipesToScan, scan_i, candidateRecipesMap,
          fm_result, fm_queries, s_pc, query, s_result, s_queries,
          currentSuggestions, searchInput, debounceTimer, searches, shown, selection,
          suggestionCalls, lastRequested, renderedSuggestions, scoring,
          editor, fetches, ingredientsTable, saves, renders, timers, lastInput>>

InitRich ==
  \E listing \in Listings(RichCatalog, 0, MaxRich) :
    /\ store = StoreOf(listing)
    /\ library \in [1..Len(listing) -> Statuses]

InitWide ==
  \E listing \in Listings(WideCatalog, MaxRich + 1, MaxWide) :
    /\ store = StoreOf(listing)
    /\ \E d \in 0..Len(listing) :
         library = [k \in 1..Len(listing) |-> IF k = d THEN "dislike" ELSE "none"]

InitLong ==
  \E listing \in LongListings :
    /\ store = StoreOf(listing)
    /\ library = [k \in 1..Len(listing) |-> "none"]

\* #recipe-search-results with display none and no content
Hidden == [visible |-> FALSE, results |-> <<>>]

\* no timer pending
NoTimer == [pending |-> FALSE, query |-> <<>>]

\* no scores computed apart from a call
NoScoring == [n |-> 0, a |-> <<0, 0>>, b |-> <<0, 0>>, out |-> <<>>]

\* The editor as its constructor leaves it; null is 0, rows count from 1.
NoEditor ==
  [recipe |-> <<>>, isFork |-> FALSE, ingredients |-> <<>>,
   normalizedIngredients |-> <<>>, activeRowIndex |-> 0,
   pendingSubstitutions |-> <<>>, pendingSelectedIndex |-> 0,
   promptEl |-> 0, loadingEl |-> 0, resultEl |-> 0, displayed |-> FALSE]

\* db.ingredients ('++id, name, frequency') with nothing in it
EmptyTable == [rows |-> {}, nextId |-> 1]

\* no timer set: debounceTimer = null (0), nothing pending
NoTimers == [debounceTimer |-> 0, pending |-> {}]

\* no input event yet
NoInput == [query |-> <<>>, age |-> 0]

\* The page before the editor is opened: nothing saved, nothing rendered.
InitApp ==
  /\ editor = NoEditor
  /\ fetches = {}
  /\ ingredientsTable = EmptyTable
  /\ saves = {}
  /\ renders = {}
  /\ timers = NoTimers
  /\ lastInput = NoInput

\* no call of either engine under way, the page as it is loaded
InitIdle ==
  /\ console = {}
  /\ fm_pc = "idle"
  /\ selectedIngredients = Undefined
  /\ normalizedSelected = <<>>
  /\ dislikedIds = {}
  /\ recipesToScan = <<>>
  /\ scan_i = 0
  /\ candidateRecipesMap = <<>>
  /\ fm_result = <<>>
  /\ fm_queries = 0
  /\ s_pc = "idle"
  /\ query = <<>>
  /\ s_result = <<>>
  /\ s_queries = 0
  /\ currentSuggestions = <<>>
  /\ searchInput = <<>>
  /\ debounceTimer = NoTimer
  /\ searches = {}
  /\ shown = Hidden
  /\ selection = <<>>
  /\ suggestionCalls = {}
  /\ lastRequested = <<>>
  /\ renderedSuggestions = [loading |-> FALSE, list |-> <<>>]

Init ==
  /\ (InitRich \/ InitWide \/ InitLong)
  /\ dbAvailable \in BOOLEAN
  /\ InitIdle
  /\ InitApp
  /\ scoring = NoScoring

(***************************************************************************)
(* findMatchingRecipes, one action per run between two awaits.  The two    *)
(* engines share no state but the console, and the store and the library   *)
(* do not change during a call.  The driver starts a call of one engine    *)
(* while the other is idle, or, for a search, while the scan of            *)
(* findMatchingRecipes waits at a yield: the search then runs between two  *)
(* runs of the scan.                                                       *)
(***************************************************************************)
\* RecipesMiniApp.getDislikedRecipeIds on a query that answers
DislikedOf(lib) == {id \in DOMAIN lib : lib[id] = "dislike"}

\* what findMatchingRecipes and getDislikedRecipeIds pass to console.error
FM_Messages ==
  {"Database not available", "Error getting disliked recipes",
   "Error finding matching recipes: TypeError",
   "Error finding matching recipes: query failed"}

\* what searchRecipes passes to console.error
S_Messages ==
  {"Error searching recipes: TypeError", "Error searching recipes: query failed"}

\* variant: the call also stores its result in the cache
FM_Resolve_caching(result, msgs) ==
  /\ fm_pc' = "done"
  /\ fm_result' = result
  /\ console' = console \cup msgs
  /\ currentSuggestions' = result

\* the call resolves to result; the call that logged msgs passes them to
\* console.error
FM_Resolve(result, msgs) ==
  /\ fm_pc' = "done"
  /\ fm_result' = result
  /\ console' = console \cup msgs
  /\ UNCHANGED currentSuggestions

\* the chunk loop from index i, and what follows it when it ends
FM_Scan(recipes, i, cands) ==
  LET r == RunScan(recipes, i, cands, dislikedIds, normalizedSelected)
  IN /\ scan_i' = r.i
     /\ candidateRecipesMap' = r.cands
     /\ IF r.st = "yield"
        THEN fm_pc' = "yield" /\ UNCHANGED <<fm_result, console, currentSuggestions>>
        ELSE IF r.st = "throw"
        THEN FM_Resolve(<<>>, {"Error finding matching recipes: TypeError"})
        ELSE LET ranked == ScoreAndRank(r.cands, normalizedSelected)
             IN IF ranked.thrown
                THEN FM_Resolve(<<>>, {"Error finding matching recipes: TypeError"})
                ELSE FM_Resolve(ranked.topMatches, {})

\* variant: only an absent selection returns at once
EmptySelection_absentOnly(sel) == ~Truthy(sel)

\* the selection for which findMatchingRecipes returns [] at once
EmptySelection(sel) == ~Truthy(sel) \/ Len(sel.a) = 0

\* findMatchingRecipes(sel) up to its first await
FM_CallWith(sel) ==
  /\ fm_pc = "idle"
  /\ s_pc = "idle"
  /\ selectedIngredients' = sel
  /\ IF EmptySelection(sel)
     THEN /\ FM_Resolve(<<>>, {})
          /\ UNCHANGED <<normalizedSelected, fm_queries>>
     ELSE IF ~dbAvailable
     THEN /\ FM_Resolve(<<>>, {"Database not available"})
          /\ UNCHANGED <<normalizedSelected, fm_queries>>
     ELSE IF \E k \in 1..Len(sel.a) : ~IsString(sel.a[k])
     THEN /\ FM_Resolve(<<>>, {"Error finding matching recipes: TypeError"})
          /\ UNCHANGED <<normalizedSelected, fm_queries>>
     ELSE /\ normalizedSelected' =
               [k \in 1..Len(sel.a) |-> normalizeIngredient(sel.a[k].s)]
          /\ fm_pc' = "awaitDisliked"
          /\ fm_queries' = fm_queries + 1
          /\ UNCHANGED <<fm_result, console, currentSuggestions>>
  /\ UNCHANGED <<dislikedIds, recipesToScan, scan_i, candidateRecipesMap>>
  /\ UNCHANGED <<envVars, scoring, appVars>> /\ UNCHANGED sVars

\* a call of findMatchingRecipes with any argument
FM_Call ==
  /\ suggestionCalls = {}
  /\ \E sel \in Selections : FM_CallWith(sel)
  /\ UNCHANGED uiVars

\* the preference query settles; getDislikedRecipeIds answers an empty set when
\* it failed; findMatchingRecipes goes on to read db.recipes
FM_Disliked ==
  /\ fm_pc = "awaitDisliked"
  /\ \E ok \in BOOLEAN :
       /\ dislikedIds' = IF ok THEN DislikedOf(library) ELSE {}
       /\ console' = IF ok THEN console
                     ELSE console \cup {"Error getting disliked recipes"}
  /\ fm_pc' = "awaitRecipes"
  /\ fm_queries' = fm_queries + 1
  /\ UNCHANGED <<selectedIngredients, normalizedSelected, recipesToScan, scan_i,
                 candidateRecipesMap, fm_result, currentSuggestions>>
  /\ UNCHANGED <<envVars, scoring, appVars>> /\ UNCHANGED sVars /\ UNCHANGED uiVars

\* the recipes query settles: the catch block on a failure, the scan otherwise
FM_Recipes ==
  /\ fm_pc = "awaitRecipes"
  /\ \E ok \in BOOLEAN :
       IF ok
       THEN /\ recipesToScan' = Take(store, MAX_RECIPES_TO_SCAN)
            /\ FM_Scan(recipesToScan', 0, <<>>)
       ELSE /\ FM_Resolve(<<>>, {"Error finding matching recipes: query failed"})
            /\ UNCHANGED <<recipesToScan, scan_i, candidateRecipesMap>>
  /\ UNCHANGED <<selectedIngredients, normalizedSelected, dislikedIds, fm_queries>>
  /\ UNCHANGED <<envVars, scoring, appVars>> /\ UNCHANGED sVars /\ UNCHANGED uiVars

\* variant: the loop goes on one chunk further than it should
FM_Resume_skipChunk ==
  /\ fm_pc = "yield"
  /\ FM_Scan(recipesToScan, scan_i + 2 * chunkSize, candidateRecipesMap)
  /\ UNCHANGED <<selectedIngredients, normalizedSelected, dislikedIds, recipesToScan,
                 fm_queries>>
  /\ UNCHANGED <<envVars, scoring, appVars>> /\ UNCHANGED sVars /\ UNCHANGED uiVars

\* the zero-delay timer of the yield fires: the loop goes on with i += chunkSize
FM_Resume ==
  /\ fm_pc = "yield"
  /\ FM_Scan(recipesToScan, scan_i + chunkSize, candidateRecipesMap)
  /\ UNCHANGED <<selectedIngredients, normalizedSelected, dislikedIds, recipesToScan,
                 fm_queries>>
  /\ UNCHANGED <<envVars, scoring, appVars>> /\ UNCHANGED sVars /\ UNCHANGED uiVars

\* the caller has taken the result; the next call starts afresh (its messages
\* leave the console, which holds the messages of the calls under way)
FM_Return ==
  /\ fm_pc = "done"
  /\ suggestionCalls = {}
  /\ fm_pc' = "idle"
  /\ selectedIngredients' = Undefined
  /\ normalizedSelected' = <<>>
  /\ dislikedIds' = {}
  /\ recipesToScan' = <<>>
  /\ scan_i' = 0
  /\ candidateRecipesMap' = <<>>
  /\ fm_result' = <<>>
  /\ fm_queries' = 0
  /\ console' = console \ FM_Messages
  /\ UNCHANGED currentSuggestions
  /\ UNCHANGED <<envVars, scoring, appVars>> /\ UNCHANGED sVars /\ UNCHANGED uiVars

(***************************************************************************)
(* searchRecipes                                                           *)
(***************************************************************************)
S_Resolve(result, msgs) ==
  /\ s_pc' = "done"
  /\ s_result' = result
  /\ console' = console \cup msgs

\* the query for which searchRecipes returns [] at once
EmptyQuery(q) == q = <<>> \/ trim(q) = <<>> \/ SearchTerms(q) = <<>>

S_CallWith(q) ==
  /\ s_pc = "idle"
  /\ fm_pc \in {"idle", "yield"}
  /\ query' = q
  /\ IF EmptyQuery(q)
     THEN S_Resolve(<<>>, {}) /\ UNCHANGED s_queries
     ELSE IF ~dbAvailable
     THEN S_Resolve(<<>>, {"Error searching recipes: TypeError"})
          /\ UNCHANGED s_queries
     ELSE /\ s_pc' = "awaitRecipes"
          /\ s_queries' = s_queries + 1
          /\ UNCHANGED <<s_result, console>>
  /\ UNCHANGED currentSuggestions
  /\ UNCHANGED <<envVars, scoring, appVars>> /\ UNCHANGED fmVars /\ UNCHANGED uiVars

\* a call of searchRecipes with any query
S_Call == \E q \in Queries : S_CallWith(q)

\* variant: a call whose query fails is left pending
S_Recipes_hang ==
  /\ s_pc = "awaitRecipes"
  /\ \E ok \in BOOLEAN :
       IF ~ok THEN s_pc' = "hung" /\ UNCHANGED <<s_result, console>>
       ELSE LET r == SearchLoop(Take(store, RECIPE_SEARCH_MAX_SCAN),
                                SearchTerms(query), <<>>)
            IN IF r.thrown THEN S_Resolve(<<>>, {"Error searching recipes: TypeError"})
               ELSE S_Resolve(Take(SortHits(r.scored, <<>>), RECIPE_SEARCH_MAX_RESULTS),
                              {})
  /\ UNCHANGED <<query, s_queries>>
  /\ UNCHANGED currentSuggestions
  /\ UNCHANGED <<envVars, scoring, appVars>> /\ UNCHANGED fmVars /\ UNCHANGED uiVars

\* the recipes query settles: [] on a failure, the ranked hits otherwise
S_Recipes ==
  /\ s_pc = "awaitRecipes"
  /\ \E ok \in BOOLEAN :
       IF ~ok THEN S_Resolve(<<>>, {"Error searching recipes: query failed"})
       ELSE LET r == SearchLoop(Take(store, RECIPE_SEARCH_MAX_SCAN),
                                SearchTerms(query), <<>>)
            IN IF r.thrown THEN S_Resolve(<<>>, {"Error searching recipes: TypeError"})
               ELSE S_Resolve(Take(SortHits(r.scored, <<>>), RECIPE_SEARCH_MAX_RESULTS),
                              {})
  /\ UNCHANGED <<query, s_queries>>
  /\ UNCHANGED currentSuggestions
  /\ UNCHANGED <<envVars, scoring, appVars>> /\ UNCHANGED fmVars /\ UNCHANGED uiVars

S_Return ==
  /\ s_pc = "done"
  /\ s_pc' = "idle"
  /\ query' = <<>>
  /\ s_result' = <<>>
  /\ s_queries' = 0
  /\ console' = console \ S_Messages
  /\ UNCHANGED currentSuggestions
  /\ UNCHANGED <<envVars, scoring, appVars>> /\ UNCHANGED fmVars /\ UNCHANGED uiVars

Next ==
  \/ FM_Call \/ FM_Disliked \/ FM_Recipes \/ FM_Resume \/ FM_Return
  \/ S_Call \/ S_Recipes \/ S_Return

Spec == Init /\ [][Next]_vars

(***************************************************************************)
(* searchRecipes on recipes with longer texts and queries of up to five    *)
(* terms, for the context snippets.                                        *)
(***************************************************************************)
\* ingredients ["a b", "c d e"], instructions "e a"
sBoth ==
  Recipe(Str(<<"z">>), Arr(<<Str(<<"a", " ", "b">>), Str(<<"c", " ", "d", " ", "e">>)>>), Undefined, Str(<<"e", " ", "a">>))
\* ingredients ["f"], instructions "a b c d e"
sInstr ==
  Recipe(Str(<<"z">>), Arr(<<Str(<<"f">>)>>), Undefined, Str(<<"a", " ", "b", " ", "c", " ", "d", " ", "e">>))
\* title "a", ingredients ["a b"], instructions "b"
sTitle ==
  Recipe(Str(<<"a">>), Arr(<<Str(<<"a", " ", "b">>)>>), Undefined, Str(<<"b">>))
\* no ingredients, instructions " b a d c"
sBare ==
  Recipe(Str(<<"z">>), Arr(<<>>), Undefined, Str(<<" ", "b", " ", "a", " ", "d", " ", "c">>))

SnippetCatalog == {sBoth, sInstr, sTitle, sBare}

SnippetQueries ==
  {<<"a", " ", "b", " ", "c", " ", "d">>, <<"d", " ", "c", " ", "b", " ", "a", " ", "e">>, <<"a", " ", "a", " ", "b">>, <<"e">>, <<"b", " ", "f">>, <<"c">>, <<"x">>, <<"A", " ", " ", "d">>}

InitSnippet ==
  /\ \E listing \in Listings(SnippetCatalog, 1, 2) :
       /\ store = StoreOf(listing)
       /\ library = [k \in 1..Len(listing) |-> "none"]
  /\ dbAvailable = TRUE
  /\ InitIdle
  /\ InitApp
  /\ scoring = NoScoring

S_CallSnippet == \E q \in SnippetQueries : S_CallWith(q)

NextSnippet == S_CallSnippet \/ S_Recipes \/ S_Return

SpecSnippet == InitSnippet /\ [][NextSnippet]_vars

(***************************************************************************)
(* The score alone: two recipes with primaryMatches and secondaryMatches   *)
(* between 0 and n are scored for a selection of n ingredients.            *)
(***************************************************************************)
InitScore ==
  /\ store = <<>> /\ library = <<>> /\ dbAvailable = TRUE
  /\ InitIdle
  /\ InitApp
  /\ \E n \in 1..MaxSelected :
       \E pa \in 0..n, sa \in 0..n, pb \in 0..n, sb \in 0..n :
         scoring = [n |-> n, a |-> <<pa, sa>>, b |-> <<pb, sb>>, out |-> <<>>]

\* candidates.map(recipe => scoreRecipe(recipe, normalizedSelected)), the score
Score_Pair ==
  /\ scoring.out = <<>>
  /\ scoring' = [scoring EXCEPT !.out =
                   <<Score(scoring.a[1], scoring.a[2], scoring.n),
                     Score(scoring.b[1], scoring.b[2], scoring.n)>>]
  /\ UNCHANGED envVars /\ UNCHANGED fmVars /\ UNCHANGED sVars /\ UNCHANGED uiVars
  /\ UNCHANGED appVars
  /\ UNCHANGED <<console, currentSuggestions>>

NextScore == Score_Pair

SpecScore == InitScore /\ [][NextScore]_vars

(***************************************************************************)
(* scoreTermMatch alone: a term as the tokenization of searchRecipes makes *)
(* them (not empty, no whitespace) against a lowercase title.  Scores are  *)
(* in units of 1/600.                                                      *)
(***************************************************************************)
TermsToScore == UNION {[1..n -> {"a", "b"}] : n \in 1..MaxTermLen}

TitlesToScore == UNION {[1..n -> {"a", "b", " "}] : n \in 0..MaxTitleLen}

InitTerm ==
  /\ store = <<>> /\ library = <<>> /\ dbAvailable = TRUE
  /\ InitIdle
  /\ InitApp
  /\ \E term \in TermsToScore, titleLower \in TitlesToScore :
       scoring = [term |-> term, titleLower |-> titleLower, out |-> -1]

\* scoreRecipeTitle: const s = scoreTermMatch(term, titleLower)
Term_Score ==
  /\ scoring.out = -1
  /\ scoring' = [scoring EXCEPT !.out = scoreTermMatch(scoring.term, scoring.titleLower)]
  /\ UNCHANGED envVars /\ UNCHANGED fmVars /\ UNCHANGED sVars /\ UNCHANGED uiVars
  /\ UNCHANGED appVars
  /\ UNCHANGED <<console, currentSuggestions>>

NextTerm == Term_Score

SpecTerm == InitTerm /\ [][NextTerm]_vars

(***************************************************************************)
(* parseSubstitutionResponse alone, one action per pass of its loop.  A    *)
(* message is a sequence over "{", "}", blank and two characters that      *)
(* stand for the inside of an object: "v" for a non-empty substitutions    *)
(* array with an entry that normalizes and a string explanation, "o" for   *)
(* anything else that is valid JSON.  JSON.parse accepts "{v}" and "{o}"   *)
(* and throws on every other text.                                         *)
(***************************************************************************)
MessageChars == {"{", "}", "v", "o", " "}

Messages == UNION {[1..n -> MessageChars] : n \in 0..MaxMsgLen}

\* String.prototype.lastIndexOf(ch, position): the last index at or before
\* position, a position below 0 counting as 0; -1 when there is none
lastIndexOf(s, ch, position) ==
  LET from == IF position < 0 THEN 0 ELSE position
      at == {k \in 0..(Len(s) - 1) : k <= from /\ s[k + 1] = ch}
  IN IF at = {} THEN -1 ELSE CHOOSE k \in at : \A m \in at : m <= k

\* JSON.parse(text) and the tests on its value: "accept", "reject" or "throw"
ParseObject(text) ==
  IF text = <<"{", "v", "}">> THEN "accept"
  ELSE IF text = <<"{", "o", "}">> THEN "reject"
  ELSE "throw"

\* passes of the loop that the model follows
MaxTries == MaxMsgLen + 2

InitParse ==
  /\ store = <<>> /\ library = <<>> /\ dbAvailable = TRUE
  /\ InitIdle
  /\ InitApp
  /\ \E message \in Messages :
       scoring = [message |-> message, pc |-> "call", trimmed |-> <<>>, idx |-> 0,
                  tries |-> 0, out |-> -2]

\* const trimmed = (message || '').trim(); if (!trimmed) return null
Parse_Enter ==
  /\ scoring.pc = "call"
  /\ LET trimmed == trim(scoring.message)
     IN scoring' = IF trimmed = <<>>
                   THEN [scoring EXCEPT !.pc = "done", !.out = -1]
                   ELSE [scoring EXCEPT !.pc = "loop", !.trimmed = trimmed,
                                        !.idx = Len(trimmed)]
  /\ UNCHANGED envVars /\ UNCHANGED fmVars /\ UNCHANGED sVars /\ UNCHANGED uiVars
  /\ UNCHANGED appVars
  /\ UNCHANGED <<console, currentSuggestions>>

\* one pass of while (true): out is the index of the suffix returned, -1 for
\* null
Parse_Try ==
  /\ scoring.pc = "loop"
  /\ scoring.tries < MaxTries
  /\ LET start == lastIndexOf(scoring.trimmed, "{", scoring.idx - 1)
     IN scoring' =
          IF start = -1 THEN [scoring EXCEPT !.pc = "done", !.out = -1]
          ELSE IF ParseObject(SubSeq(scoring.trimmed, start + 1, Len(scoring.trimmed)))
                  = "accept"
          THEN [scoring EXCEPT !.pc = "done", !.out = start,
                               !.tries = scoring.tries + 1]
          ELSE [scoring EXCEPT !.idx = start, !.tries = scoring.tries + 1]
  /\ UNCHANGED envVars /\ UNCHANGED fmVars /\ UNCHANGED sVars /\ UNCHANGED uiVars
  /\ UNCHANGED appVars
  /\ UNCHANGED <<console, currentSuggestions>>

NextParse == Parse_Enter \/ Parse_Try

SpecParse == InitParse /\ [][NextParse]_vars

(***************************************************************************)
(* getSuggestions run stepwise: it reads the selection, calls              *)
(* findMatchingRecipes (the actions above) and stores what the call        *)
(* resolved to in currentSuggestions.  SpecCached has it next to direct    *)
(* calls of the two engines.                                               *)
(***************************************************************************)
\* what getSelectedIngredients can read: lowercase names
UISelections == {<<>>, <<<<"a">>>>, <<<<"c">>>>}

InitCached ==
  /\ \/ InitLong
     \/ /\ store = StoreOf(<<rForward, rFull>>)
        /\ library \in {<<"none", "none">>, <<"dislike", "none">>}
  /\ dbAvailable \in BOOLEAN
  /\ InitIdle
  /\ InitApp
  /\ scoring = NoScoring

\* getSuggestions up to its await; with nothing selected it returns [] here
GS_Call ==
  /\ suggestionCalls = {}
  /\ IF selection = <<>>
     THEN /\ fm_pc = "idle" /\ s_pc = "idle"
          /\ UNCHANGED fmVars /\ UNCHANGED <<console, currentSuggestions>>
          /\ UNCHANGED <<envVars, scoring, appVars>> /\ UNCHANGED sVars
          /\ UNCHANGED suggestionCalls
     ELSE /\ FM_CallWith(Arr([k \in 1..Len(selection) |-> Str(selection[k])]))
          /\ suggestionCalls' = {[n |-> 1, sel |-> selection]}
  /\ UNCHANGED <<searchInput, debounceTimer, searches, shown, selection,
                 lastRequested, renderedSuggestions>>

\* getSuggestions after its await: this.currentSuggestions = suggestions
GS_Return ==
  /\ fm_pc = "done"
  /\ suggestionCalls # {}
  /\ currentSuggestions' = fm_result
  /\ suggestionCalls' = {}
  /\ fm_pc' = "idle"
  /\ selectedIngredients' = Undefined
  /\ normalizedSelected' = <<>>
  /\ dislikedIds' = {}
  /\ recipesToScan' = <<>>
  /\ scan_i' = 0
  /\ candidateRecipesMap' = <<>>
  /\ fm_result' = <<>>
  /\ fm_queries' = 0
  /\ console' = console \ FM_Messages
  /\ UNCHANGED <<searchInput, debounceTimer, searches, shown, selection,
                 lastRequested, renderedSuggestions>>
  /\ UNCHANGED <<envVars, scoring, appVars>> /\ UNCHANGED sVars

\* the user selects or deselects ingredients in the pantry
UI_Select ==
  /\ \E sel \in UISelections : sel # selection /\ selection' = sel
  /\ UNCHANGED <<searchInput, debounceTimer, searches, shown, suggestionCalls,
                 lastRequested, renderedSuggestions, currentSuggestions>>
  /\ UNCHANGED <<envVars, scoring, appVars>> /\ UNCHANGED fmVars /\ UNCHANGED sVars /\ UNCHANGED console

NextCached ==
  \/ UI_Select \/ GS_Call \/ GS_Return
  \/ FM_Call \/ FM_Disliked \/ FM_Recipes \/ FM_Resume \/ FM_Return
  \/ S_Call \/ S_Recipes \/ S_Return

SpecCached == InitCached /\ [][NextCached]_vars

(***************************************************************************)
(* The page: the input handler of initRecipeSearch and loadSuggestions,    *)
(* with the calls they await.  A call in flight is a record in searches or *)
(* suggestionCalls; it resolves in one step to the value the engine        *)
(* computes for its argument (the store queries answering), and calls in   *)
(* flight resolve in any order: each awaits store reads of its own, and a  *)
(* scan takes as many yields as its selection leaves it chunks to scan.    *)
(***************************************************************************)
\* what the user types into the search input
UIQueries == {<<>>, <<"a">>, <<"b">>}

\* the value searchRecipes(q) resolves to
SearchValue(q) ==
  IF EmptyQuery(q) \/ ~dbAvailable THEN <<>>
  ELSE SearchResult(Take(store, RECIPE_SEARCH_MAX_SCAN), SearchTerms(q))

\* the value findMatchingRecipes(sel) resolves to, sel a list of strings
SuggestionsValue(sel) ==
  IF sel = <<>> \/ ~dbAvailable THEN <<>>
  ELSE MatchResult(Take(store, MAX_RECIPES_TO_SCAN), DislikedOf(library),
                   [k \in 1..Len(sel) |-> normalizeIngredient(sel[k])])

\* a number for a call that none of the calls in flight has
FreeSlots(calls) == {n \in 1..MaxInFlight : \A c \in calls : c.n # n}

InitUI ==
  /\ store = StoreOf(<<rForward, rFull>>)
  /\ library = <<"none", "none">>
  /\ dbAvailable = TRUE
  /\ InitIdle
  /\ InitApp
  /\ scoring = NoScoring

\* the input event: the pending timer is cleared; an empty query hides the
\* results, any other starts the debounce timer
UI_Input ==
  /\ \E value \in UIQueries :
       /\ searchInput' = value
       /\ IF trim(value) = <<>>
          THEN debounceTimer' = NoTimer /\ shown' = Hidden
          ELSE /\ debounceTimer' = [pending |-> TRUE, query |-> trim(value)]
               /\ UNCHANGED shown
  /\ UNCHANGED <<searches, selection, suggestionCalls, lastRequested,
                 renderedSuggestions, currentSuggestions>>
  /\ UNCHANGED <<envVars, scoring, appVars>> /\ UNCHANGED fmVars /\ UNCHANGED sVars /\ UNCHANGED console

\* the debounce timer fires: searchRecipes(query) is called and awaited
UI_DebounceFires ==
  /\ debounceTimer.pending
  /\ \E n \in FreeSlots(searches) :
       searches' = searches \cup {[n |-> n, query |-> debounceTimer.query]}
  /\ debounceTimer' = NoTimer
  /\ UNCHANGED <<searchInput, shown, selection, suggestionCalls, lastRequested,
                 renderedSuggestions, currentSuggestions>>
  /\ UNCHANGED <<envVars, scoring, appVars>> /\ UNCHANGED fmVars /\ UNCHANGED sVars /\ UNCHANGED console

\* a call of searchRecipes resolves: renderSearchResults(results, query)
UI_SearchResolves ==
  /\ \E call \in searches :
       /\ searches' = searches \ {call}
       /\ shown' = [visible |-> TRUE, results |-> SearchValue(call.query)]
  /\ UNCHANGED <<searchInput, debounceTimer, selection, suggestionCalls, lastRequested,
                 renderedSuggestions, currentSuggestions>>
  /\ UNCHANGED <<envVars, scoring, appVars>> /\ UNCHANGED fmVars /\ UNCHANGED sVars /\ UNCHANGED console

\* loadSuggestions up to its await: the search bar is reset, the loading card
\* shown, getSuggestions called; with nothing selected getSuggestions returns
\* [] at once, which is rendered before anything else runs
UI_LoadSuggestions ==
  /\ searchInput' = <<>>
  /\ shown' = Hidden
  /\ lastRequested' = selection
  /\ IF selection = <<>>
     THEN /\ renderedSuggestions' = [loading |-> FALSE, list |-> <<>>]
          /\ UNCHANGED suggestionCalls
     ELSE /\ \E n \in FreeSlots(suggestionCalls) :
               suggestionCalls' = suggestionCalls \cup {[n |-> n, sel |-> selection]}
          /\ renderedSuggestions' = [loading |-> TRUE, list |-> <<>>]
  /\ UNCHANGED <<debounceTimer, searches, selection, currentSuggestions>>
  /\ UNCHANGED <<envVars, scoring, appVars>> /\ UNCHANGED fmVars /\ UNCHANGED sVars /\ UNCHANGED console

\* a call of getSuggestions resolves: findMatchingRecipes has answered,
\* currentSuggestions is set and loadSuggestions renders the list
UI_SuggestionsResolve ==
  /\ \E call \in suggestionCalls :
       /\ suggestionCalls' = suggestionCalls \ {call}
       /\ currentSuggestions' = SuggestionsValue(call.sel)
       /\ renderedSuggestions' =
            [loading |-> FALSE, list |-> SuggestionsValue(call.sel)]
  /\ UNCHANGED <<searchInput, debounceTimer, searches, shown, selection, lastRequested>>
  /\ UNCHANGED <<envVars, scoring, appVars>> /\ UNCHANGED fmVars /\ UNCHANGED sVars /\ UNCHANGED console

NextUI ==
  \/ UI_Input \/ UI_DebounceFires \/ UI_SearchResolves
  \/ UI_Select \/ UI_LoadSuggestions \/ UI_SuggestionsResolve

SpecUI == InitUI /\ [][NextUI]_vars

(***************************************************************************)
(* Properties.  The predicates of this section are written from the        *)
(* statements they check, not from the operators above.                    *)
(***************************************************************************)
\* the call of the engine has logged no error
FM_NoError == console \cap FM_Messages = {}
S_NoError == console \cap S_Messages = {}

\* x occurs in y as a contiguous substring
Occurs(x, y) ==
  \E k \in 0..(Len(y) - Len(x)) : \A j \in 1..Len(x) : y[k + j] = x[j]

\* lowercase, surrounding blanks removed
Normal(s) ==
  LET low == [k \in 1..Len(s) |->
                IF s[k] = "A" THEN "a" ELSE IF s[k] = "B" THEN "b" ELSE s[k]]
      inner == {k \in 1..Len(s) : s[k] # " "}
  IN IF inner = {} THEN <<>>
     ELSE SubSeq(low, CHOOSE k \in inner : \A m \in inner : k <= m,
                      CHOOSE k \in inner : \A m \in inner : k >= m)

\* the normalized string entries of an array field
StringEntries(v) ==
  IF v.t = "array"
  THEN {Normal(v.a[k].s) : k \in {j \in 1..Len(v.a) : v.a[j].t = "string"}}
  ELSE {}

\* the substring rule between a selected ingredient S and a recipe ingredient R
SubstringRule(S, R) == Occurs(S, R) \/ (Len(S) > Len(R) /\ Occurs(R, S))

\* S matches an entry of the recipe's ingredients or normalizedIngredients
ListedIn(recipe, S) ==
  \E R \in StringEntries(recipe.ingredients)
           \cup StringEntries(recipe.normalizedIngredients) : SubstringRule(S, R)

\* S occurs in the recipe's instructions text
InInstructions(recipe, S) ==
  /\ recipe.instructions.t = "string"
  /\ recipe.instructions.s # <<>>
  /\ Occurs(S, Normal(recipe.instructions.s))

\* every entry of the recipe's ingredient arrays is a string
StringsOnly(v) ==
  v.t = "undefined" \/ (v.t = "array" /\ \A k \in 1..Len(v.a) : v.a[k].t = "string")

ResultIds == {fm_result[k].recipe : k \in 1..Len(fm_result)}

\* no selected ingredient is listed, at least one occurs in the instructions
InstructionOnly(recipe, sel) ==
  /\ StringsOnly(recipe.ingredients) /\ StringsOnly(recipe.normalizedIngredients)
  /\ \A k \in 1..Len(sel) : ~ListedIn(recipe, sel[k])
  /\ \E k \in 1..Len(sel) : InInstructions(recipe, sel[k])

\* a field is missing or ill-typed
Malformed(recipe) ==
  \/ ~(recipe.ingredients.t = "array" /\ StringsOnly(recipe.ingredients))
  \/ ~StringsOnly(recipe.normalizedIngredients)
  \/ recipe.instructions.t # "string"
  \/ recipe.title.t # "string"

\* every stored recipe has its fields, each of its type
WellFormedStore == \A j \in 1..Len(store) : ~Malformed(store[j])

\* C1 (as claimed): a recipe whose status is 'dislike' is in no list that
\* findMatchingRecipes returns, also when the preference query failed; stated
\* for stores of well-formed recipes
C1_ExclusionLaw ==
  (fm_pc = "done" /\ WellFormedStore) =>
    \A k \in 1..Len(fm_result) : library[fm_result[k].recipe] # "dislike"

\* C2 (as claimed): a scanned, non-disliked recipe that no selected ingredient
\* lists but whose instructions contain one is returned with primaryMatches = 0,
\* secondaryMatches = the number of selected ingredients in the instructions
\* (1 for one selected ingredient) and score = 100 * secondaryMatches;
\* taken on calls that logged no error and returned fewer than MAX_RESULTS
C2_InstructionOnlyReturned ==
  (fm_pc = "done" /\ FM_NoError /\ Len(fm_result) < MAX_RESULTS) =>
    \A j \in 1..Len(recipesToScan) :
      LET r == recipesToScan[j]
      IN (/\ library[r.id] # "dislike"
          /\ r.title.t = "string"
          /\ InstructionOnly(r, normalizedSelected)) =>
           \E k \in 1..Len(fm_result) :
             /\ fm_result[k].recipe = r.id
             /\ fm_result[k].primaryMatches = 0
             /\ fm_result[k].secondaryMatches =
                  Cardinality({i \in 1..Len(normalizedSelected) :
                                 InInstructions(r, normalizedSelected[i])})
             /\ fm_result[k].scoreN =
                  100 * fm_result[k].secondaryMatches * Len(normalizedSelected)

\* C2 (amended): a stored recipe that no selected ingredient lists is never
\* returned by findMatchingRecipes, whatever its instructions contain
C2_InstructionOnlyNotReturned ==
  fm_pc = "done" =>
    \A j \in 1..Len(store) :
      InstructionOnly(store[j], normalizedSelected) => store[j].id \notin ResultIds

\* C2 witness: a call without errors returned a result while a scanned,
\* non-disliked recipe matched in its instructions only
C2_Witness ==
  /\ fm_pc = "done" /\ FM_NoError /\ fm_result # <<>>
  /\ Len(fm_result) < MAX_RESULTS
  /\ \E j \in 1..Len(recipesToScan) :
       /\ library[recipesToScan[j].id] # "dislike"
       /\ InstructionOnly(recipesToScan[j], normalizedSelected)

\* the queries of the findMatchingRecipes call that has returned all answered
FM_QueriesAnswered ==
  /\ fm_queries = 2
  /\ "Error getting disliked recipes" \notin console
  /\ "Error finding matching recipes: query failed" \notin console

\* the query of the searchRecipes call that has returned answered
S_QueryAnswered ==
  /\ s_queries = 1
  /\ "Error searching recipes: query failed" \notin console

\* the scanned recipes with every malformed one counting for nothing
Others(recipes) ==
  [k \in 1..Len(recipes) |->
     IF Malformed(recipes[k])
     THEN [id |-> recipes[k].id, title |-> Undefined, ingredients |-> Undefined,
           normalizedIngredients |-> Undefined, instructions |-> Undefined]
     ELSE recipes[k]]

Elements(seq) == {seq[k] : k \in 1..Len(seq)}

\* C3 (as claimed): when the queries answered, every result computed from the
\* well-formed recipes of the scan is returned, by findMatchingRecipes and by
\* searchRecipes, whatever malformed recipes the scan holds beside them
C3_MalformedDoNotAbort ==
  /\ (fm_pc = "done" /\ FM_QueriesAnswered) =>
       Elements(MatchResult(Others(recipesToScan), dislikedIds, normalizedSelected))
         \subseteq Elements(fm_result)
  /\ (s_pc = "done" /\ S_QueryAnswered) =>
       Elements(SearchResult(Others(Take(store, RECIPE_SEARCH_MAX_SCAN)),
                             SearchTerms(query)))
         \subseteq Elements(s_result)

\* C4 (as claimed): a call during which the database was missing or a query
\* against the recipe store or the preference store failed resolves to [];
\* stated for stores of well-formed recipes
C4_StoreUnavailableEmpty ==
  /\ (/\ fm_pc = "done" /\ WellFormedStore
      /\ \/ "Database not available" \in console
         \/ "Error getting disliked recipes" \in console
         \/ "Error finding matching recipes: query failed" \in console)
       => fm_result = <<>>
  /\ (/\ s_pc = "done"
      /\ \/ "Error searching recipes: query failed" \in console
         \/ (~dbAvailable /\ "Error searching recipes: TypeError" \in console))
       => s_result = <<>>

\* C5: for results a before b of one findMatchingRecipes output, either
\* score(a) > score(b) + 0.1, or the scores are within 0.1 and
\* primaryMatches(a) >= primaryMatches(b) and, those being equal,
\* secondaryMatches(a) >= secondaryMatches(b)   (score = scoreN / totalSelected)
C5_MonotonicRanking ==
  fm_pc = "done" =>
    \A i \in 1..Len(fm_result) : \A j \in (i + 1)..Len(fm_result) :
      LET a == fm_result[i]
          b == fm_result[j]
          n == a.totalSelected
      IN \/ (a.scoreN - b.scoreN) * 10 > n
         \/ /\ (a.scoreN - b.scoreN) * 10 <= n
            /\ (b.scoreN - a.scoreN) * 10 <= n
            /\ a.primaryMatches >= b.primaryMatches
            /\ (a.primaryMatches = b.primaryMatches
                  => a.secondaryMatches >= b.secondaryMatches)

\* C5 witness: two results of different scores, the better scanned second
C5_Witness ==
  /\ fm_pc = "done" /\ Len(fm_result) = 2 /\ Len(candidateRecipesMap) >= 2
  /\ fm_result[1].scoreN > fm_result[2].scoreN
  /\ \E i \in 1..Len(candidateRecipesMap) : \E j \in (i + 1)..Len(candidateRecipesMap) :
       /\ candidateRecipesMap[j].id = fm_result[1].recipe
       /\ candidateRecipesMap[i].id = fm_result[2].recipe

\* C6: in a searchRecipes output no hit with hitInTitle = false stands before
\* a hit with hitInTitle = true
C6_TitlePrecedence ==
  s_pc = "done" =>
    \A i \in 1..Len(s_result) : \A j \in (i + 1)..Len(s_result) :
      s_result[i].hitInTitle \/ ~s_result[j].hitInTitle

\* C6 witness: a title hit, matched by a fuzzy subsequence only or matching
\* fewer terms, stands before a body-only hit
C6_Witness ==
  /\ s_pc = "done" /\ Len(s_result) = 2
  /\ s_result[1].hitInTitle /\ ~s_result[2].hitInTitle
  /\ \/ s_result[1].matchedCount < s_result[2].matchedCount
     \/ s_result[1].totalScore < s_result[2].totalScore

\* C7: findMatchingRecipes with an empty or absent selection and searchRecipes
\* with an empty or blank query return [], issue no store query, log no error
C7_EmptyInput ==
  /\ (/\ fm_pc = "done"
      /\ (selectedIngredients.t = "undefined" \/ selectedIngredients = Arr(<<>>)))
       => (fm_result = <<>> /\ fm_queries = 0 /\ FM_NoError)
  /\ (s_pc = "done" /\ \A k \in 1..Len(query) : query[k] = " ")
       => (s_result = <<>> /\ s_queries = 0 /\ S_NoError)

\* C7 witness: a call with the empty selection has returned
C7_Witness ==
  /\ fm_pc = "done" /\ selectedIngredients = Arr(<<>>)
  /\ store # <<>> /\ dbAvailable

\* C8: no element of a findMatchingRecipes output has primaryMatches = 0 and
\* secondaryMatches = 0
C8_ZeroMatchExclusion ==
  fm_pc = "done" =>
    \A k \in 1..Len(fm_result) :
      ~(fm_result[k].primaryMatches = 0 /\ fm_result[k].secondaryMatches = 0)

\* C8 witness: a call without errors scored a candidate that it did not return,
\* with room left in the output
C8_Witness ==
  /\ fm_pc = "done" /\ FM_NoError /\ FM_QueriesAnswered
  /\ Len(fm_result) < MAX_RESULTS
  /\ \E k \in 1..Len(candidateRecipesMap) : candidateRecipesMap[k].id \notin ResultIds

CandidateIds == {candidateRecipesMap[k].id : k \in 1..Len(candidateRecipesMap)}

\* the selected ingredients that the recipe lists, in the order of the selection
Listed(recipe, sel) == SelectSeq(sel, LAMBDA S : ListedIn(recipe, S))

\* C9: a selected ingredient S matches a recipe ingredient R exactly when R
\* contains S, or S is strictly longer than R and contains R; the candidate
\* filter and the primary-match count both go by this rule.  On a call that ran
\* without error and did not stop early: the candidates are the scanned,
\* non-disliked recipes listing a selected ingredient; each result of a recipe
\* with an ingredients array counts and names exactly the selected ingredients
\* it lists; and, with room in the output, each such candidate is a result
C9_SubstringPredicate ==
  (/\ fm_pc = "done" /\ FM_NoError /\ FM_QueriesAnswered
   /\ Len(candidateRecipesMap) < TARGET_CANDIDATES) =>
    /\ \A j \in 1..Len(recipesToScan) :
         LET r == recipesToScan[j]
         IN r.id \in CandidateIds <=>
              (/\ r.id \notin dislikedIds
               /\ \E k \in 1..Len(normalizedSelected) :
                    ListedIn(r, normalizedSelected[k]))
    /\ \A k \in 1..Len(fm_result) :
         LET r == store[fm_result[k].recipe]
         IN r.ingredients.t = "array" =>
              /\ fm_result[k].matchedIngredients = Listed(r, normalizedSelected)
              /\ fm_result[k].primaryMatches = Len(Listed(r, normalizedSelected))
    /\ Len(fm_result) < MAX_RESULTS =>
         \A k \in 1..Len(candidateRecipesMap) :
           candidateRecipesMap[k].ingredients.t = "array" =>
             candidateRecipesMap[k].id \in ResultIds

\* C9 witness: a result matched in the reverse direction alone: the selected
\* ingredient occurs in no entry of the recipe, an entry occurs in it
C9_Witness ==
  /\ fm_pc = "done" /\ FM_NoError /\ FM_QueriesAnswered
  /\ \E k \in 1..Len(fm_result) :
       LET r == store[fm_result[k].recipe]
           entries == StringEntries(r.ingredients)
                        \cup StringEntries(r.normalizedIngredients)
       IN /\ fm_result[k].primaryMatches = 1
          /\ \A R \in entries : ~Occurs(normalizedSelected[1], R)
          /\ \E R \in entries : Occurs(R, normalizedSelected[1])

\* every selected ingredient matches an entry of the recipe's ingredients array
FullyListed(recipe, sel) ==
  /\ recipe.ingredients.t = "array" /\ StringsOnly(recipe.ingredients)
  /\ StringsOnly(recipe.normalizedIngredients)
  /\ \A k \in 1..Len(sel) :
       \E R \in StringEntries(recipe.ingredients) : SubstringRule(sel[k], R)

\* the scanned recipes that match a selected ingredient, in a list or in the text
Matching(recipes, sel) ==
  {j \in 1..Len(recipes) :
     \E k \in 1..Len(sel) :
        ListedIn(recipes[j], sel[k]) \/ InInstructions(recipes[j], sel[k])}

\* C10 (as claimed): when the queries answered, a scanned, non-disliked recipe
\* whose ingredients array is matched by each of the n selected ingredients,
\* fewer than MAX_RESULTS recipes matching, is returned with primaryMatches = n,
\* a completeness term of exactly 100 and matchedIngredients equal to the
\* (normalized) selection
C10_FullCoverage ==
  (fm_pc = "done" /\ FM_QueriesAnswered) =>
    \A j \in 1..Len(recipesToScan) :
      LET r == recipesToScan[j]
          n == Len(normalizedSelected)
      IN (/\ library[r.id] # "dislike"
          /\ ~Malformed(r)
          /\ FullyListed(r, normalizedSelected)
          /\ Cardinality(Matching(recipesToScan, normalizedSelected)) < MAX_RESULTS) =>
           \E k \in 1..Len(fm_result) :
             /\ fm_result[k].recipe = r.id
             /\ fm_result[k].primaryMatches = n
             /\ fm_result[k].scoreN
                  - (n * 1000 + fm_result[k].secondaryMatches * 100) * n = 100 * n
             /\ fm_result[k].matchedIngredients = normalizedSelected

\* C11: in a searchRecipes output, of two hits with the same hitInTitle the one
\* with the larger matchedCount stands first, and of two with the same
\* matchedCount as well the one standing first has no smaller totalScore
C11_SearchOrdering ==
  s_pc = "done" =>
    \A i \in 1..Len(s_result) : \A j \in (i + 1)..Len(s_result) :
      LET a == s_result[i]
          b == s_result[j]
      IN a.hitInTitle = b.hitInTitle =>
           /\ a.matchedCount >= b.matchedCount
           /\ a.matchedCount = b.matchedCount => a.totalScore >= b.totalScore

\* C11 witness: for a query of two terms, two title hits, the one scanned second
\* matching both terms and standing before the one that matches one term
C11_Witness ==
  /\ s_pc = "done" /\ Len(s_result) = 2
  /\ s_result[1].hitInTitle /\ s_result[2].hitInTitle
  /\ s_result[1].recipe > s_result[2].recipe
  /\ s_result[1].matchedCount = 2 /\ s_result[2].matchedCount = 1
  /\ Len(SearchTerms(query)) = 2

\* what findMatchingRecipes answers for a selection on the snapshot of the two
\* stores, its queries answering
Answer(sel) ==
  IF sel.t # "array" \/ sel.a = <<>> \/ ~dbAvailable
     \/ \E k \in 1..Len(sel.a) : sel.a[k].t # "string"
  THEN <<>>
  ELSE MatchResult(Take(store, MAX_RECIPES_TO_SCAN), DislikedOf(library),
                   [k \in 1..Len(sel.a) |-> Normal(sel.a[k].s)])

\* what searchRecipes answers for a query on the snapshot of the recipe store
Found(q) ==
  IF SearchTerms(q) = <<>> \/ ~dbAvailable THEN <<>>
  ELSE SearchResult(Take(store, RECIPE_SEARCH_MAX_SCAN), SearchTerms(q))

Lower(s) ==
  [k \in 1..Len(s) |-> IF s[k] = "A" THEN "a" ELSE IF s[k] = "B" THEN "b" ELSE s[k]]

\* s without its leading and trailing blanks
Strip(s) ==
  LET inner == {k \in 1..Len(s) : s[k] # " "}
  IN IF inner = {} THEN <<>>
     ELSE SubSeq(s, CHOOSE k \in inner : \A m \in inner : k <= m,
                    CHOOSE k \in inner : \A m \in inner : k >= m)

\* the entries of a list of strings, ", " between them
CommaList(entries) ==
  LET f[k \in 0..Len(entries)] ==
        IF k = 0 THEN <<>>
        ELSE IF k = 1 THEN entries[1].s
        ELSE f[k - 1] \o <<",", " ">> \o entries[k].s
  IN f[Len(entries)]

Ellipsis == <<".", ".", ".">>

\* the window of the given radius around the first occurrence of term in text,
\* blanks at its ends removed, "..." before it exactly when it does not start
\* at the beginning of text and after it exactly when it does not reach the end
Window(text, term, radius) ==
  LET low == Lower(text)
      at == {k \in 0..(Len(text) - Len(term)) : SubSeq(low, k + 1, k + Len(term)) = term}
      pos == CHOOSE k \in at : \A m \in at : k <= m
      from == IF pos - radius > 0 THEN pos - radius ELSE 0
      to == IF pos + Len(term) + radius < Len(text)
            THEN pos + Len(term) + radius ELSE Len(text)
  IN (IF from > 0 THEN Ellipsis ELSE <<>>)
     \o Strip(SubSeq(text, from + 1, to))
     \o (IF to < Len(text) THEN Ellipsis ELSE <<>>)

\* the windows of the distinct terms that occur in text, in the order of the
\* query, two blanks between them
Windows(text, terms, radius) ==
  LET kept == SelectSeq([k \in 1..Len(terms) |-> k],
                         LAMBDA k : /\ Occurs(terms[k], Lower(text))
                                    /\ \A j \in 1..(k - 1) : terms[j] # terms[k])
      f[n \in 0..Len(kept)] ==
        IF n = 0 THEN <<>>
        ELSE IF n = 1 THEN Window(text, terms[kept[1]], radius)
        ELSE f[n - 1] \o <<" ", " ">> \o Window(text, terms[kept[n]], radius)
  IN f[Len(kept)]

\* C13: the contextSnippet of a body-only hit on a well-formed recipe is made
\* of the windows of the matched terms: in the ingredients text (radius
\* IngredientContextChars) when a term occurs there, else in the instructions
\* text (radius InstructionContextChars); each window holds the first
\* occurrence of its term and is marked with "..." exactly on the sides where
\* it is cut
C13_SnippetExtraction ==
  s_pc = "done" =>
    \A k \in 1..Len(s_result) :
      LET hit == s_result[k]
          r == store[hit.recipe]
          terms == SearchTerms(query)
          ingredientsText == CommaList(r.ingredients.a)
          inIngredients == \E j \in 1..Len(terms) :
                              Occurs(terms[j], Lower(ingredientsText))
      IN (~hit.hitInTitle /\ ~Malformed(r)) =>
           /\ hit.contextSnippet =
                IF inIngredients
                THEN Windows(ingredientsText, terms, IngredientContextChars)
                ELSE Windows(r.instructions.s, terms, InstructionContextChars)
           /\ \E j \in 1..Len(terms) : Occurs(terms[j], Lower(hit.contextSnippet))

\* C13 witness: a body-only hit on a well-formed recipe whose snippet is cut at
\* its start ("..." before the window) and not at its end
C13_Witness ==
  /\ s_pc = "done"
  /\ \E k \in 1..Len(s_result) :
       LET snip == s_result[k].contextSnippet
       IN /\ ~s_result[k].hitInTitle /\ ~Malformed(store[s_result[k].recipe])
          /\ Len(snip) > 3
          /\ SubSeq(snip, 1, 3) = Ellipsis
          /\ SubSeq(snip, Len(snip) - 2, Len(snip)) # Ellipsis

\* C14: findMatchingRecipes returns no recipe listed after the first
\* MAX_RECIPES_TO_SCAN of the store and searchRecipes none listed after the
\* first RECIPE_SEARCH_MAX_SCAN (a recipe's id is its position in the listing);
\* each call reads the recipes once, and what findMatchingRecipes returns is
\* among the recipes that read delivered
C14_ScanCap ==
  /\ fm_pc = "done" =>
       /\ Len(recipesToScan) <= MAX_RECIPES_TO_SCAN
       /\ fm_queries <= 2
       /\ \A k \in 1..Len(fm_result) :
            /\ fm_result[k].recipe <= MAX_RECIPES_TO_SCAN
            /\ \E j \in 1..Len(recipesToScan) :
                 recipesToScan[j].id = fm_result[k].recipe
  /\ s_pc = "done" =>
       /\ s_queries <= 1
       /\ \A k \in 1..Len(s_result) : s_result[k].recipe <= RECIPE_SEARCH_MAX_SCAN

\* C14 witness: both engines have returned results while the store lists, past
\* the cap of each, a recipe that the call would have matched
C14_Witness ==
  /\ fm_pc = "done" /\ fm_result # <<>>
  /\ \E j \in (MAX_RECIPES_TO_SCAN + 1)..Len(store) :
       /\ library[j] # "dislike"
       /\ \E k \in 1..Len(normalizedSelected) : ListedIn(store[j], normalizedSelected[k])
  /\ s_pc = "done" /\ s_result # <<>>
  /\ \E j \in (RECIPE_SEARCH_MAX_SCAN + 1)..Len(store) :
       \E k \in 1..Len(SearchTerms(query)) :
          Occurs(SearchTerms(query)[k], Lower(store[j].title.s))

\* C15 (as claimed): once nothing is in flight or pending, the page shows the
\* result of the most recent request: the search results of the query in the
\* input, and none when the input is empty; the suggestions for the selection
\* the latest loadSuggestions read, which currentSuggestions holds as well
\* when that selection was not empty
C15_StaleDiscarded ==
  /\ (searches = {} /\ ~debounceTimer.pending) =>
       IF Strip(searchInput) = <<>> THEN ~shown.visible
       ELSE shown = [visible |-> TRUE, results |-> Found(Strip(searchInput))]
  /\ suggestionCalls = {} =>
       /\ ~renderedSuggestions.loading
       /\ renderedSuggestions.list =
            Answer(Arr([k \in 1..Len(lastRequested) |-> Str(lastRequested[k])]))
       /\ lastRequested # <<>> => currentSuggestions = renderedSuggestions.list

\* C16: a step of findMatchingRecipes or searchRecipes, resolving or failing,
\* leaves the recipe store, the preference store and currentSuggestions as
\* they are, and the records a scan has read stay as read until the call
\* returns; currentSuggestions changes only where getSuggestions resumes
\* after the call it awaited
C16_Frame ==
  /\ store' = store /\ library' = library
  /\ (fm_pc \in {"scan", "yield"} /\ fm_pc' # "idle") => recipesToScan' = recipesToScan
  /\ currentSuggestions' # currentSuggestions =>
       suggestionCalls # {} /\ fm_pc = "done" /\ fm_pc' = "idle"
  /\ (suggestionCalls = {} \/ fm_pc # "done") => currentSuggestions' = currentSuggestions

C16_PureRead == [][C16_Frame]_vars

\* a call made after getSuggestions cached a non-empty list has failed on a
\* store query, and the cache still holds the list
C16_Witness ==
  /\ currentSuggestions # <<>>
  /\ fm_pc = "done"
  /\ fm_result = <<>>
  /\ console \cap FM_Messages # {}

\* C17 (as claimed): for every n >= 1 and two recipes with match counts
\* between 0 and n, more primary matches give a strictly higher score,
\* whatever the secondary matches (the scores are compared times n)
C17_PrimaryDominates ==
  (scoring.out # <<>> /\ scoring.a[1] > scoring.b[1]) =>
    scoring.out[1] > scoring.out[2]

\* the places in the query of the terms that match the title (scoreTermMatch
\* gives them a score above 0), and of those that occur in the body text: the
\* ingredients joined with ", ", a blank, the instructions
InTitle(r, terms) ==
  {k \in 1..Len(terms) : scoreTermMatch(terms[k], Lower(r.title.s)) > 0}

InBody(r, terms) ==
  {k \in 1..Len(terms) :
     Occurs(terms[k], Lower(CommaList(r.ingredients.a) \o <<" ">> \o r.instructions.s))}

\* C18 (as claimed): matchedCount of a hit is the number of distinct query
\* terms that matched the recipe in its title or in its body
C18_DistinctTerms ==
  (s_pc = "done" /\ S_NoError) =>
    \A k \in 1..Len(s_result) :
      LET r == store[s_result[k].recipe]
          terms == SearchTerms(query)
      IN ~Malformed(r) =>
           s_result[k].matchedCount =
             Cardinality({terms[j] : j \in InTitle(r, terms) \cup InBody(r, terms)})

\* C18 (amended): matchedCount of a hit is the larger of two counts, the query
\* terms that matched the title and the query terms that occur in the body,
\* each term counted as often as the query repeats it
C18_MaxOfCounts ==
  (s_pc = "done" /\ S_NoError) =>
    \A k \in 1..Len(s_result) :
      LET r == store[s_result[k].recipe]
          terms == SearchTerms(query)
          inTitle == Cardinality(InTitle(r, terms))
          inBody == Cardinality(InBody(r, terms))
      IN ~Malformed(r) =>
           s_result[k].matchedCount = IF inTitle > inBody THEN inTitle ELSE inBody

\* C18 witness: a hit with matchedCount 1 for a query of two different terms,
\* one matched only in the title and the other only in the body
C18_Witness ==
  /\ s_pc = "done" /\ S_NoError
  /\ \E k \in 1..Len(s_result) :
       LET r == store[s_result[k].recipe]
           terms == SearchTerms(query)
       IN /\ ~Malformed(r)
          /\ s_result[k].matchedCount = 1
          /\ \E i \in InTitle(r, terms) \ InBody(r, terms) :
               \E j \in InBody(r, terms) \ InTitle(r, terms) : terms[i] # terms[j]

\* a step of the chunk loop: from the read of the recipes or from a yield, to
\* the next yield or to the end of the call
IsScanStep ==
  /\ fm_pc \in {"awaitRecipes", "yield"}
  /\ <<fm_pc, scan_i>>' # <<fm_pc, scan_i>>

\* the recipes the loop examines in such a step: from where it starts or
\* resumes to the end of the last chunk it took
ExaminedInStep ==
  LET from == IF fm_pc = "yield" THEN scan_i + chunkSize ELSE 0
      to == IF scan_i' + chunkSize < Len(recipesToScan')
            THEN scan_i' + chunkSize ELSE Len(recipesToScan')
  IN IF to > from THEN to - from ELSE 0

\* C19 (as claimed): the scan yields between every two consecutive chunks, so
\* no step of it examines more than chunkSize recipes
C19_ChunkStep == IsScanStep => ExaminedInStep <= chunkSize

C19_YieldEveryChunk == [][C19_ChunkStep]_vars

\* C19 (amended): the scan yields only where a chunk is finished and only
\* after the chunks that start at a positive multiple of 3 * chunkSize: after
\* four chunks the first time, after every three chunks from then on; so no
\* step examines more than four chunks, and none after a yield more than
\* three.  At a yield the candidates are those of whole chunks: the recipes up
\* to the end of the chunk that are not disliked and match the selection
C19_FewChunksStep ==
  IsScanStep =>
    /\ ExaminedInStep <= (IF fm_pc = "yield" THEN 3 ELSE 4) * chunkSize
    /\ fm_pc' = "yield" =>
         /\ scan_i' > 0 /\ scan_i' % (3 * chunkSize) = 0
         /\ scan_i' = (IF fm_pc = "yield" THEN scan_i + chunkSize ELSE 0)
                       + (IF fm_pc = "yield" THEN 2 ELSE 3) * chunkSize
         /\ scan_i' < Len(recipesToScan')
         /\ {candidateRecipesMap'[k].id : k \in 1..Len(candidateRecipesMap')} =
              {j \in 1..Len(recipesToScan') :
                 /\ j <= scan_i' + chunkSize
                 /\ j \notin dislikedIds
                 /\ AnyIngredientMatches(recipesToScan'[j], normalizedSelected) = "true"}

C19_YieldEveryFewChunks == [][C19_FewChunksStep]_vars

\* C19 witness: the scan is at its second yield, three chunks after the first
C19_Witness ==
  /\ fm_pc = "yield"
  /\ scan_i = 2 * 3 * chunkSize
  /\ candidateRecipesMap # <<>>

\* the recipes among the first n scanned that the candidate filter keeps
Kept(n) ==
  {j \in 1..Len(recipesToScan) :
     /\ j <= n
     /\ j \notin dislikedIds
     /\ AnyIngredientMatches(recipesToScan[j], normalizedSelected) = "true"}

\* C20 (as claimed): the candidate set never holds more than the target
C20_NeverAboveTarget == Len(candidateRecipesMap) <= TARGET_CANDIDATES

\* C20 (amended): the target is looked at where a chunk ends.  The candidate
\* set stays below target + chunkSize; a scan that ended without an error
\* either stopped at the end of the first chunk by which the candidates had
\* reached the target, with every later recipe unexamined, or ran below the
\* target through all the recipes read
C20_EarlyStop ==
  /\ Len(candidateRecipesMap) < TARGET_CANDIDATES + chunkSize
  /\ (fm_pc = "done" /\ FM_NoError) =>
       IF Len(candidateRecipesMap) >= TARGET_CANDIDATES
       THEN /\ scan_i < Len(recipesToScan)
            /\ scan_i % chunkSize = 0
            /\ CandidateIds = Kept(scan_i + chunkSize)
            /\ Cardinality(Kept(scan_i)) < TARGET_CANDIDATES
       ELSE /\ scan_i >= Len(recipesToScan)
            /\ CandidateIds = Kept(Len(recipesToScan))

\* C20 witness: a scan stopped early with more candidates than the target and
\* matching recipes left unexamined
C20_Witness ==
  /\ fm_pc = "done" /\ FM_NoError
  /\ Len(candidateRecipesMap) = TARGET_CANDIDATES + chunkSize - 1
  /\ scan_i + chunkSize < Len(recipesToScan)
  /\ Kept(Len(recipesToScan)) # Kept(scan_i + chunkSize)

\* the windows of the first most distinct terms that occur in text, in the
\* order of the query, two blanks between them
WindowsUpTo(text, terms, radius, most) ==
  LET kept == SelectSeq([k \in 1..Len(terms) |-> k],
                         LAMBDA k : /\ Occurs(terms[k], Lower(text))
                                    /\ \A j \in 1..(k - 1) : terms[j] # terms[k])
      f[n \in 0..Len(kept)] ==
        IF n = 0 THEN <<>>
        ELSE IF n = 1 THEN Window(text, terms[kept[1]], radius)
        ELSE f[n - 1] \o <<" ", " ">> \o Window(text, terms[kept[n]], radius)
  IN f[IF Len(kept) < most THEN Len(kept) ELSE most]

\* the distinct terms of the query that occur in text
DistinctIn(text, terms) ==
  {terms[k] : k \in {j \in 1..Len(terms) : Occurs(terms[j], Lower(text))}}

\* C21: a hit has a contextSnippet only if no term matched its title and
\* some term occurs in its body; the snippet of such a hit is made from the
\* ingredients text when a term occurs there and from the instructions text
\* otherwise, of one window for each distinct term that occurs in that text,
\* the first 3 of them at most, two blanks between windows
C21_SnippetConstruction ==
  (s_pc = "done" /\ S_NoError) =>
    \A k \in 1..Len(s_result) :
      LET hit == s_result[k]
          r == store[hit.recipe]
          terms == SearchTerms(query)
          ingredientsText == CommaList(r.ingredients.a)
          instructionsText == r.instructions.s
          inIngredients == DistinctIn(ingredientsText, terms) # {}
          inInstructions == DistinctIn(instructionsText, terms) # {}
      IN ~Malformed(r) =>
           /\ hit.contextSnippet # <<>> =>
                ~hit.hitInTitle /\ (inIngredients \/ inInstructions)
           /\ hit.hitInTitle => hit.contextSnippet = <<>>
           /\ ~hit.hitInTitle =>
                hit.contextSnippet =
                  IF inIngredients
                  THEN WindowsUpTo(ingredientsText, terms, IngredientContextChars, 3)
                  ELSE WindowsUpTo(instructionsText, terms, InstructionContextChars, 3)

\* C21 witness: a body-only hit whose ingredients text holds four distinct
\* terms of the query, and whose instructions hold one as well: the snippet
\* has the windows of the first three terms, from the ingredients text
C21_Witness ==
  /\ s_pc = "done" /\ S_NoError
  /\ \E k \in 1..Len(s_result) :
       LET hit == s_result[k]
           r == store[hit.recipe]
           terms == SearchTerms(query)
           ingredientsText == CommaList(r.ingredients.a)
       IN /\ ~hit.hitInTitle
          /\ Cardinality(DistinctIn(ingredientsText, terms)) >= 4
          /\ DistinctIn(r.instructions.s, terms) # {}
          /\ hit.contextSnippet =
               WindowsUpTo(ingredientsText, terms, IngredientContextChars, 3)
          /\ hit.contextSnippet #
               WindowsUpTo(ingredientsText, terms, IngredientContextChars, 4)

\* term is at the start of s
StartsWith(s, term) == Len(term) <= Len(s) /\ SubSeq(s, 1, Len(term)) = term

\* some whitespace-delimited word of title starts with term (term not empty)
WordStartsWith(title, term) ==
  \E p \in 0..(Len(title) - Len(term)) :
    /\ p = 0 \/ title[p] = " "
    /\ SubSeq(title, p + 1, p + Len(term)) = term

\* the number of characters of term found in order in title by a greedy scan
\* from left to right: g[j] is the number found in the first j characters
\* of title
GreedyFound(term, title) ==
  LET g[j \in 0..Len(title)] ==
        IF j = 0 THEN 0
        ELSE IF g[j - 1] < Len(term) /\ term[g[j - 1] + 1] = title[j]
             THEN g[j - 1] + 1 ELSE g[j - 1]
  IN g[Len(title)]

\* C22: scoreTermMatch is 1.0 for a title equal to the term, else 0.9 for a
\* title that starts with it, else 0.8 for one that contains it, else 0.7
\* when a word of the title starts with it, else ratio * 0.5 for the ratio
\* of the term's characters found in order when it is at least 0.6, else 0
\* (in units of 1/600); a fuzzy score is below each of the other tiers
C22_TermScore ==
  scoring.out # -1 =>
    LET term == scoring.term
        title == scoring.titleLower
        found == GreedyFound(term, title)
        fuzzy == ~Occurs(term, title) /\ ~WordStartsWith(title, term)
    IN /\ scoring.out =
            IF title = term THEN 600
            ELSE IF StartsWith(title, term) THEN 540
            ELSE IF Occurs(term, title) THEN 480
            ELSE IF WordStartsWith(title, term) THEN 420
            ELSE IF found * 10 >= 6 * Len(term) THEN (300 * found) \div Len(term)
            ELSE 0
       /\ fuzzy => scoring.out <= 300
       /\ (fuzzy /\ found * 10 < 6 * Len(term)) => scoring.out = 0

\* C22 witness: a fuzzy score of a term found in part, two characters of three
C22_Witness ==
  /\ scoring.out = 200
  /\ Len(scoring.term) = 3
  /\ GreedyFound(scoring.term, scoring.titleLower) = 2
  /\ ~Occurs(scoring.term, scoring.titleLower)

\* C29: scoreTermMatch never gives 0.7 (420 in units of 1/600): a title with
\* a word that starts with the term contains the term, and is scored 0.8 or
\* higher
C29_NoWordTier ==
  scoring.out # -1 =>
    /\ scoring.out # 420
    /\ WordStartsWith(scoring.titleLower, scoring.term) =>
         Occurs(scoring.term, scoring.titleLower) /\ scoring.out >= 480

\* C29 witness: a later word of the title starts with the term, the title
\* does not, and the score is 0.8
C29_Witness ==
  /\ scoring.out = 480
  /\ WordStartsWith(scoring.titleLower, scoring.term)
  /\ ~StartsWith(scoring.titleLower, scoring.term)

\* C24 (as claimed): every recipe the candidate filter admitted is scored
\* with primaryMatches >= 1, so none is dropped by the zero-match filter: a
\* call that ended without an error returns every candidate it scored, up
\* to MAX_RESULTS
C24_FilterScoreAgree ==
  (fm_pc = "done" /\ FM_NoError) =>
    /\ \A k \in 1..Len(fm_result) : fm_result[k].primaryMatches >= 1
    /\ Len(fm_result) =
         Min(MAX_RESULTS, Min(MAX_SCORING_CANDIDATES, Len(candidateRecipesMap)))

\* the indices of the "{" of a text
Braces(text) == {k \in 0..(Len(text) - 1) : text[k + 1] = "{"}

\* the indices of the "{" from which the text to its end is an acceptable
\* substitution object
Acceptable(text) ==
  {k \in Braces(text) : SubSeq(text, k + 1, Len(text)) = <<"{", "v", "}">>}

\* C25 (as claimed): parseSubstitutionResponse tries each "{" of the trimmed
\* message once at most, the last first, and stops: it returns the first
\* suffix that is acceptable, and null when the first "{" has been tried
\* without success
C25_ParseTerminates ==
  /\ scoring.tries <= Cardinality(Braces(scoring.trimmed))
  /\ scoring.pc = "done" =>
       scoring.out = IF Acceptable(scoring.trimmed) = {} THEN -1
                     ELSE CHOOSE k \in Acceptable(scoring.trimmed) :
                            \A m \in Acceptable(scoring.trimmed) : m <= k

\* ---------------------------------------------------------------------
\* The substitution editor: a row is chosen, a prompt submitted, and the
\* answer accepted or rejected.  An ingredient is a sequence of strings
\* whose last element is the ingredient the recipe was opened with; rows
\* count from 1 and 0 stands for null and for a panel that is hidden.
\* ---------------------------------------------------------------------
MaxGen == 2

EditedRecipe ==
  [id |-> 1, ingredients |-> <<<<"a">>, <<"b">>>>,
   normalizedIngredients |-> <<<<"a">>, <<"b">>>>]

\* fetchSubstitutions resolved: the answer of the LLM to "Substitute this
\* ingredient", one suggestion for the ingredient named in the message.
Substitutions(ingredient) ==
  <<[raw |-> <<"s">> \o ingredient, normalized |-> <<"s">> \o ingredient]>>

\* recipe.normalizedIngredients || (recipe.ingredients || []).map(i =>
\* (i || '').toLowerCase().trim())
NormalizedList(recipe) ==
  IF "normalizedIngredients" \in DOMAIN recipe THEN recipe.normalizedIngredients
  ELSE [k \in 1..Len(recipe.ingredients) |-> trim(toLowerCase(recipe.ingredients[k]))]

\* open(recipe, isFork)
Editor_open(recipe, isFork) ==
  [recipe |-> recipe, isFork |-> isFork, ingredients |-> recipe.ingredients,
   normalizedIngredients |-> NormalizedList(recipe), activeRowIndex |-> 0,
   pendingSubstitutions |-> <<>>, pendingSelectedIndex |-> 0,
   promptEl |-> 0, loadingEl |-> 0, resultEl |-> 0, displayed |-> TRUE]

InitEditor ==
  /\ store = <<>>
  /\ library = <<>>
  /\ dbAvailable = TRUE
  /\ InitIdle
  /\ scoring = NoScoring
  /\ editor = Editor_open(EditedRecipe, FALSE)
  /\ fetches = {}
  /\ ingredientsTable = EmptyTable
  /\ saves = {}
  /\ renders = {}
  /\ timers = NoTimers
  /\ lastInput = NoInput

EditorFrame ==
  /\ UNCHANGED envVars /\ UNCHANGED fmVars /\ UNCHANGED sVars /\ UNCHANGED uiVars
  /\ UNCHANGED <<console, currentSuggestions, scoring, ingredientsTable, saves, renders>>
  /\ UNCHANGED timerVars

\* the click handler of a row's pencil button, online
Ed_RowClick ==
  \E i \in 1..Len(editor.ingredients) :
    /\ editor' = [editor EXCEPT !.activeRowIndex = i, !.promptEl = i,
                                !.loadingEl = 0, !.resultEl = 0]
    /\ UNCHANGED fetches
    /\ EditorFrame

\* submitPrompt up to its await: the submit button is in the prompt panel
Ed_SubmitPrompt ==
  /\ editor.promptEl # 0
  /\ editor.activeRowIndex # 0
  /\ Len(editor.ingredients[editor.activeRowIndex]) <= MaxGen
  /\ \E n \in FreeSlots(fetches) :
       fetches' = fetches \cup
         {[n |-> n, activeRow |-> editor.activeRowIndex,
           ingredient |-> editor.ingredients[editor.activeRowIndex]]}
  /\ editor' = [editor EXCEPT !.promptEl = 0, !.resultEl = 0,
                              !.loadingEl = editor.activeRowIndex]
  /\ EditorFrame

\* submitPrompt after its await: fetchSubstitutions resolved
Ed_Answer ==
  \E call \in fetches :
    /\ fetches' = fetches \ {call}
    /\ editor' = [editor EXCEPT
                    !.pendingSubstitutions = Substitutions(call.ingredient),
                    !.pendingSelectedIndex = 0,
                    !.loadingEl = 0, !.resultEl = call.activeRow]
    /\ EditorFrame

\* submitPrompt after its await: fetchSubstitutions threw
Ed_AnswerFails ==
  \E call \in fetches :
    /\ fetches' = fetches \ {call}
    /\ editor' = [editor EXCEPT !.loadingEl = 0, !.promptEl = call.activeRow]
    /\ EditorFrame

\* acceptSubstitution: the accept button is in the result panel
Ed_AcceptSubstitution ==
  /\ editor.resultEl # 0
  /\ IF editor.activeRowIndex = 0 \/ Len(editor.pendingSubstitutions) = 0
       THEN UNCHANGED editor
       ELSE LET idx == Min(editor.pendingSelectedIndex,
                           Len(editor.pendingSubstitutions) - 1)
                replacement == editor.pendingSubstitutions[idx + 1]
            IN  editor' = [editor EXCEPT
                  !.ingredients[editor.activeRowIndex] = replacement.raw,
                  !.normalizedIngredients[editor.activeRowIndex] =
                      replacement.normalized,
                  !.pendingSubstitutions = <<>>, !.pendingSelectedIndex = 0,
                  !.promptEl = 0, !.loadingEl = 0, !.resultEl = 0,
                  !.activeRowIndex = 0]
  /\ UNCHANGED fetches
  /\ EditorFrame

\* rejectSubstitution: the reject button is in the result panel
Ed_RejectSubstitution ==
  /\ editor.resultEl # 0
  /\ editor' = [editor EXCEPT
                  !.pendingSubstitutions = <<>>, !.pendingSelectedIndex = 0,
                  !.activeRowIndex = 0,
                  !.promptEl = 0, !.loadingEl = 0, !.resultEl = 0]
  /\ UNCHANGED fetches
  /\ EditorFrame

NextEditor ==
  \/ Ed_RowClick
  \/ Ed_SubmitPrompt
  \/ Ed_Answer
  \/ Ed_AnswerFails
  \/ Ed_AcceptSubstitution
  \/ Ed_RejectSubstitution

SpecEditor == InitEditor /\ [][NextEditor]_vars

\* The ingredient a row was opened with.
Last(s) == s[Len(s)]

\* C26: accepting a substitution replaces only the ingredient of the row
\* the accepted suggestions were requested for, so every row of the editor
\* holds the ingredient it was opened with or a substitute for it.
C26_AppliedToRequestedRow ==
  \A k \in 1..Len(editor.ingredients) :
    Last(editor.ingredients[k]) = Last(editor.recipe.ingredients[k])

\* ---------------------------------------------------------------------
\* Saving from the editor and the ingredient table (db.ingredients).  A
\* recipe is a record with id and ingredients, and normalizedIngredients
\* where it has them; title and instructions play no part.  The id of a
\* fork, 'fork-' + Date.now(), is ForkId of the time.
\* ---------------------------------------------------------------------
MaxSaves == 2
ForkBase == 10

tOne == [id |-> 1, ingredients |-> <<<<"a">>>>, normalizedIngredients |-> <<<<"a">>>>]
tTwo == [id |-> 2, ingredients |-> <<<<"B", " ">>, <<"b">>>>]

\* what the user types into the manual edit input
EditValues == {<<"A", " ">>}

RECURSIVE UniqueKeys(_, _)
UniqueKeys(list, out) ==
  IF list = <<>> THEN out
  ELSE LET name == Head(list)
           key == trim(toLowerCase(name))
       IN  IF name = <<>> \/ \E k \in 1..Len(out) : out[k] = key
             THEN UniqueKeys(Tail(list), out)
             ELSE UniqueKeys(Tail(list), Append(out, key))

\* _uniqueNormalizedIngredients(recipe)
UniqueNormalizedIngredients(recipe) == UniqueKeys(NormalizedList(recipe), <<>>)

NoRow == [id |-> 0, name |-> <<>>, frequency |-> 0]

\* db.ingredients.where('name').equals(name).first()
Table_first(table, name) ==
  LET m == {r \in table.rows : r.name = name}
  IN  IF m = {} THEN NoRow ELSE CHOOSE r \in m : \A q \in m : r.id <= q.id

\* db.ingredients.add({ name, frequency })
Table_add(table, name, frequency) ==
  [rows |-> table.rows \cup
              {[id |-> table.nextId, name |-> name, frequency |-> frequency]},
   nextId |-> table.nextId + 1]

\* db.ingredients.update(id, { frequency })
Table_update(table, id, frequency) ==
  [table EXCEPT !.rows =
     {IF r.id = id THEN [r EXCEPT !.frequency = frequency] ELSE r : r \in table.rows}]

\* db.ingredients.delete(id)
Table_delete(table, id) ==
  [table EXCEPT !.rows = {r \in table.rows : r.id # id}]

\* the names and frequencies of a table, whatever the ids
TableEntries(table) ==
  {[name |-> r.name, frequency |-> r.frequency] : r \in table.rows}

\* recalculateIngredientTable: the entries it adds after clearing the table
\* (the sort only decides their ids)
recalculateIngredientTable(recipes) ==
  LET names == UNION {{UniqueNormalizedIngredients(recipes[k])[j] :
                         j \in 1..Len(UniqueNormalizedIngredients(recipes[k]))} :
                      k \in 1..Len(recipes)}
      freq(name) ==
        Cardinality({k \in 1..Len(recipes) :
          \E j \in 1..Len(UniqueNormalizedIngredients(recipes[k])) :
            UniqueNormalizedIngredients(recipes[k])[j] = name})
  IN  {[name |-> name, frequency |-> freq(name)] : name \in names}

RECURSIVE BulkAdd(_, _)
BulkAdd(table, entries) ==
  IF entries = {} THEN table
  ELSE LET e == CHOOSE x \in entries : TRUE
       IN  BulkAdd(Table_add(table, e.name, e.frequency), entries \ {e})

InitTable ==
  /\ store = <<tOne, tTwo>>
  /\ library = [id \in {1, 2} |-> "none"]
  /\ dbAvailable = TRUE
  /\ InitIdle
  /\ scoring = NoScoring
  /\ editor = NoEditor
  /\ fetches = {}
  /\ ingredientsTable = BulkAdd(EmptyTable, recalculateIngredientTable(<<tOne, tTwo>>))
  /\ saves = {}
  /\ renders = {}
  /\ timers = NoTimers
  /\ lastInput = NoInput

TableFrame ==
  /\ UNCHANGED <<dbAvailable>> /\ UNCHANGED fmVars /\ UNCHANGED sVars /\ UNCHANGED uiVars
  /\ UNCHANGED <<console, currentSuggestions, scoring, fetches, renders>>
  /\ UNCHANGED timerVars

\* the edit and fork buttons of a recipe's detail view
Ed_Open ==
  /\ ~editor.displayed
  /\ \E k \in 1..Len(store), isFork \in BOOLEAN :
       editor' = Editor_open(store[k], isFork)
  /\ UNCHANGED <<store, library, ingredientsTable, saves>>
  /\ TableFrame

\* the click handler of a row's pencil button, offline: openManualEdit(i)
Ed_OpenManualEdit ==
  /\ editor.displayed
  /\ editor.activeRowIndex = 0
  /\ \E i \in 1..Len(editor.ingredients) :
       editor' = [editor EXCEPT !.activeRowIndex = i, !.promptEl = 0,
                                !.loadingEl = 0, !.resultEl = 0]
  /\ UNCHANGED <<store, library, ingredientsTable, saves>>
  /\ TableFrame

\* confirmEdit of openManualEdit
Ed_ConfirmEdit ==
  /\ editor.displayed
  /\ editor.activeRowIndex # 0
  /\ \E value \in EditValues \cup {<<>>} :
       LET newVal == trim(value)
           index == editor.activeRowIndex
       IN  editor' =
             IF newVal # <<>>
               THEN [editor EXCEPT !.ingredients[index] = newVal,
                       !.normalizedIngredients[index] = trim(toLowerCase(newVal)),
                       !.activeRowIndex = 0]
               ELSE [editor EXCEPT !.activeRowIndex = 0]
  /\ UNCHANGED <<store, library, ingredientsTable, saves>>
  /\ TableFrame

ForkId(time) == ForkBase + time

\* Date.now() never runs backwards: the times already used
TimesUsed ==
  {s.payload.id - ForkBase : s \in {x \in saves : x.payload.id > ForkBase}}

Latest == IF TimesUsed = {} THEN 0 ELSE CHOOSE t \in TimesUsed : \A u \in TimesUsed : u <= t

\* saveRecipe up to its first await; the Save button is disabled while a
\* row is being edited
Save_Click ==
  /\ editor.displayed
  /\ editor.activeRowIndex = 0
  /\ Cardinality(saves) < MaxSaves
  /\ \E time \in {Latest, Latest + 1} :
       /\ time > 0
       /\ saves' = saves \cup
            {[n |-> Cardinality(saves) + 1,
              pc |-> "store",
              isFork |-> editor.isFork,
              oldRecipe |-> editor.recipe,
              payload |-> [id |-> IF editor.isFork THEN ForkId(time)
                                  ELSE editor.recipe.id,
                           ingredients |-> editor.ingredients,
                           normalizedIngredients |-> editor.normalizedIngredients],
              names |-> <<>>,
              existing |-> NoRow]}
  /\ UNCHANGED <<store, library, ingredientsTable, editor>>
  /\ TableFrame

\* where a call goes once the names of one loop are used up
Advance(call) ==
  IF call.names # <<>> THEN call
  ELSE IF call.pc = "decRead"
    THEN [call EXCEPT !.pc = IF UniqueNormalizedIngredients(call.payload) = <<>>
                               THEN "like" ELSE "incRead",
                      !.names = UniqueNormalizedIngredients(call.payload)]
  ELSE [call EXCEPT !.pc = "like"]

\* db.recipes.put(recipe)
Recipes_put(recipes, recipe) ==
  IF \E k \in 1..Len(recipes) : recipes[k].id = recipe.id
    THEN [k \in 1..Len(recipes) |->
            IF recipes[k].id = recipe.id THEN recipe ELSE recipes[k]]
    ELSE Append(recipes, recipe)

\* saveRecipe: await saveForkedRecipe(payload) / await updateRecipe(payload)
Save_StoreRecipe ==
  \E call \in saves :
    /\ call.pc = "store"
    /\ IF call.isFork /\ \E k \in 1..Len(store) : store[k].id = call.payload.id
         THEN \* db.recipes.add rejects: the catch alerts
              /\ saves' = (saves \ {call}) \cup {[call EXCEPT !.pc = "failed"]}
              /\ UNCHANGED store
         ELSE /\ store' = IF call.isFork THEN Append(store, call.payload)
                          ELSE Recipes_put(store, call.payload)
              /\ saves' = (saves \ {call}) \cup
                   {IF call.isFork
                      THEN Advance([call EXCEPT !.pc = "incRead",
                             !.names = UniqueNormalizedIngredients(call.payload)])
                      ELSE Advance([call EXCEPT !.pc = "decRead",
                             !.names = UniqueNormalizedIngredients(call.oldRecipe)])}
    /\ UNCHANGED <<library, ingredientsTable, editor>>
    /\ TableFrame

\* _incrementIngredientFrequency / _decrementIngredientFrequency up to the
\* await of the read: existing = await db.ingredients.where('name')...first()
Save_ReadFrequency ==
  \E call \in saves :
    /\ call.pc \in {"decRead", "incRead"}
    /\ LET existing == Table_first(ingredientsTable, Head(call.names))
       IN  saves' = (saves \ {call}) \cup
             {IF call.pc = "decRead" /\ existing = NoRow
                THEN Advance([call EXCEPT !.names = Tail(call.names)])
                ELSE [call EXCEPT !.existing = existing,
                        !.pc = IF call.pc = "decRead" THEN "decWrite" ELSE "incWrite"]}
    /\ UNCHANGED <<store, library, ingredientsTable, editor>>
    /\ TableFrame

\* x || d on a frequency
OrElse(x, d) == IF x = 0 THEN d ELSE x

\* _incrementIngredientFrequency / _decrementIngredientFrequency after the
\* read: the awaited update, add or delete
Save_WriteFrequency ==
  \E call \in saves :
    /\ call.pc \in {"decWrite", "incWrite"}
    /\ LET existing == call.existing
           newFreq == OrElse(existing.frequency, 1) - 1
       IN  ingredientsTable' =
             IF call.pc = "incWrite"
               THEN IF existing # NoRow
                      THEN Table_update(ingredientsTable, existing.id,
                                        OrElse(existing.frequency, 0) + 1)
                      ELSE Table_add(ingredientsTable, Head(call.names), 1)
               ELSE IF newFreq <= 0
                      THEN Table_delete(ingredientsTable, existing.id)
                      ELSE Table_update(ingredientsTable, existing.id, newFreq)
    /\ saves' = (saves \ {call}) \cup
         {Advance([call EXCEPT !.names = Tail(call.names), !.existing = NoRow,
                     !.pc = IF call.pc = "decWrite" THEN "decRead" ELSE "incRead"])}
    /\ UNCHANGED <<store, library, editor>>
    /\ TableFrame

\* saveRecipe: await autoLike(payload.id, title), then this.close()
Save_AutoLike ==
  \E call \in saves :
    /\ call.pc = "like"
    /\ library' = [id \in DOMAIN library \cup {call.payload.id} |->
                     IF id = call.payload.id THEN "like" ELSE library[id]]
    /\ editor' = [editor EXCEPT !.displayed = FALSE]
    /\ saves' = (saves \ {call}) \cup {[call EXCEPT !.pc = "done"]}
    /\ UNCHANGED <<store, ingredientsTable>>
    /\ TableFrame

NextTable ==
  \/ Ed_Open
  \/ Ed_OpenManualEdit
  \/ Ed_ConfirmEdit
  \/ Save_Click
  \/ Save_StoreRecipe
  \/ Save_ReadFrequency
  \/ Save_WriteFrequency
  \/ Save_AutoLike

SpecTable == InitTable /\ [][NextTable]_vars

\* C27: whenever no save is in flight, the ingredient table holds one row
\* per ingredient name of the stored recipes, with the number of recipes
\* containing it: what recalculateIngredientTable would rebuild.
C27_TableInSync ==
  (\A call \in saves : call.pc \in {"done", "failed"}) =>
    /\ TableEntries(ingredientsTable) = recalculateIngredientTable(store)
    /\ Cardinality(ingredientsTable.rows) =
         Cardinality(recalculateIngredientTable(store))

\* ---------------------------------------------------------------------
\* renderSuggestions card by card.  loadSuggestions does not await it, and
\* it awaits createRecipeCard (a library lookup) before appending each
\* card, so a render goes on while later calls of loadSuggestions run.
\* The container #recipe-suggestions is renderedSuggestions: the loading
\* card if it is there, and the recipe cards in the order appended.
\* ---------------------------------------------------------------------
InitRender ==
  /\ store = StoreOf(<<rForward, rFull>>)
  /\ library = <<"none", "none">>
  /\ dbAvailable = TRUE
  /\ InitIdle
  /\ InitApp
  /\ scoring = NoScoring

\* loadSuggestions after its await, and renderSuggestions up to its first
\* await: the container is cleared, and the loop starts unless the list is
\* empty
Render_Start ==
  /\ \E call \in suggestionCalls :
       LET suggestions == SuggestionsValue(call.sel)
       IN  /\ suggestionCalls' = suggestionCalls \ {call}
           /\ currentSuggestions' = suggestions
           /\ renderedSuggestions' = [loading |-> FALSE, list |-> <<>>]
           /\ IF suggestions = <<>> THEN UNCHANGED renders
              ELSE \E n \in FreeSlots(renders) :
                     renders' = renders \cup
                       {[n |-> n, suggestions |-> suggestions, index |-> 0]}
  /\ UNCHANGED <<searchInput, debounceTimer, searches, shown, selection, lastRequested>>
  /\ UNCHANGED <<envVars, scoring, editor, fetches, ingredientsTable, saves>>
  /\ UNCHANGED timerVars
  /\ UNCHANGED fmVars /\ UNCHANGED sVars /\ UNCHANGED console

\* renderSuggestions after an await: createRecipeCard has resolved and the
\* card is appended to whatever the container holds by now
Render_Card ==
  /\ \E r \in renders :
       /\ renderedSuggestions' =
            [renderedSuggestions EXCEPT
               !.list = Append(@, r.suggestions[r.index + 1])]
       /\ renders' = (renders \ {r}) \cup
            (IF r.index + 1 < Len(r.suggestions)
               THEN {[r EXCEPT !.index = r.index + 1]} ELSE {})
  /\ UNCHANGED <<searchInput, debounceTimer, searches, shown, selection,
                 suggestionCalls, lastRequested, currentSuggestions>>
  /\ UNCHANGED <<envVars, scoring, editor, fetches, ingredientsTable, saves>>
  /\ UNCHANGED timerVars
  /\ UNCHANGED fmVars /\ UNCHANGED sVars /\ UNCHANGED console

NextRender ==
  \/ UI_Select
  \/ UI_LoadSuggestions
  \/ Render_Start
  \/ Render_Card

SpecRender == InitRender /\ [][NextRender]_vars

\* C28: once no call of loadSuggestions and no render is in flight, the
\* container holds the cards of one result list, in its order and each
\* recipe once, and no loading card
C28_NotInterleaved ==
  (suggestionCalls = {} /\ renders = {}) =>
    /\ ~renderedSuggestions.loading
    /\ \E sel \in UISelections : renderedSuggestions.list = SuggestionsValue(sel)

\* ---------------------------------------------------------------------
\* The debounce of the search input, with its timers and the time: a
\* timer is a record of its id, the query its callback closes over and
\* the time left, RECIPE_SEARCH_DEBOUNCE units when it is set.  timers holds
\* the id the handler's variable debounceTimer has (0: null) and the
\* timers pending; lastInput is the latest input event and its age.
\* ---------------------------------------------------------------------
RECIPE_SEARCH_DEBOUNCE == 2

TimerIds == 1..(MaxInFlight + 1)

\* variant: clearTimeout cancels nothing
clearTimeout_none(pending, id) == pending

\* clearTimeout(id)
clearTimeout(pending, id) == {t \in pending : t.id # id}

InitDebounce ==
  /\ store = StoreOf(<<rForward, rFull>>)
  /\ library = <<"none", "none">>
  /\ dbAvailable = TRUE
  /\ InitIdle
  /\ InitApp
  /\ scoring = NoScoring

\* the ids setTimeout can return: not the one held, not one pending
FreshTimerIds == TimerIds \ ({timers.debounceTimer} \cup {t.id : t \in timers.pending})

\* the input handler of #recipe-search
Deb_Input ==
  /\ \E value \in UIQueries :
       LET q == trim(value)
           cleared == IF timers.debounceTimer # 0
                        THEN clearTimeout(timers.pending, timers.debounceTimer)
                        ELSE timers.pending
       IN  /\ searchInput' = value
           /\ lastInput' = [query |-> q, age |-> 0]
           /\ IF q = <<>>
                THEN /\ shown' = Hidden
                     /\ timers' = [timers EXCEPT !.pending = cleared]
                ELSE /\ UNCHANGED shown
                     /\ FreshTimerIds # {}
                     /\ LET id == CHOOSE i \in FreshTimerIds :
                                    \A j \in FreshTimerIds : i <= j
                        IN  timers' =
                              [debounceTimer |-> id,
                               pending |-> cleared \cup
                                 {[id |-> id, query |-> q,
                                   left |-> RECIPE_SEARCH_DEBOUNCE]}]
  /\ UNCHANGED <<debounceTimer, searches, selection, suggestionCalls, lastRequested,
                 renderedSuggestions, currentSuggestions>>
  /\ UNCHANGED <<envVars, scoring, editor, fetches, ingredientsTable, saves, renders>>
  /\ UNCHANGED fmVars /\ UNCHANGED sVars /\ UNCHANGED console

\* time passes by one unit
Deb_Tick ==
  /\ timers' = [timers EXCEPT !.pending =
                  {[t EXCEPT !.left = IF @ > 0 THEN @ - 1 ELSE 0] : t \in @}]
  /\ lastInput' = [lastInput EXCEPT !.age =
                     IF @ < RECIPE_SEARCH_DEBOUNCE THEN @ + 1 ELSE @]
  /\ UNCHANGED uiVars
  /\ UNCHANGED <<envVars, scoring, editor, fetches, ingredientsTable, saves, renders>>
  /\ UNCHANGED fmVars /\ UNCHANGED sVars /\ UNCHANGED <<console, currentSuggestions>>

\* a timer fires once its time is up: searchRecipes(query) is called and
\* awaited
Deb_TimerFires ==
  /\ \E t \in timers.pending :
       /\ t.left = 0
       /\ timers' = [timers EXCEPT !.pending = @ \ {t}]
       /\ \E n \in FreeSlots(searches) :
            searches' = searches \cup {[n |-> n, query |-> t.query]}
  /\ UNCHANGED <<searchInput, debounceTimer, shown, selection, suggestionCalls,
                 lastRequested, renderedSuggestions, currentSuggestions, lastInput>>
  /\ UNCHANGED <<envVars, scoring, editor, fetches, ingredientsTable, saves, renders>>
  /\ UNCHANGED fmVars /\ UNCHANGED sVars /\ UNCHANGED console

NextDebounce ==
  \/ Deb_Input
  \/ Deb_Tick
  \/ Deb_TimerFires
  \/ UI_SearchResolves
  \/ UI_LoadSuggestions

SpecDebounce == InitDebounce /\ [][NextDebounce]_vars

\* C30: at most one debounce timer is pending; an input event leaves none
\* of the timers that were pending; an input event that empties the query
\* leaves no timer pending, hides the results and calls nothing; and
\* searchRecipes is called only with the query of the latest input event,
\* a full RECIPE_SEARCH_DEBOUNCE after it.
C30_Debounce ==
  [][ /\ Cardinality(timers'.pending) <= 1
      /\ Deb_Input => timers.pending \cap timers'.pending = {}
      /\ (Deb_Input /\ trim(searchInput') = <<>>) =>
           /\ timers'.pending = {}
           /\ ~shown'.visible
           /\ searches' = searches
      /\ Deb_TimerFires =>
           /\ searches' # searches
           /\ \A call \in searches' \ searches :
                /\ call.query = lastInput.query
                /\ lastInput.age = RECIPE_SEARCH_DEBOUNCE ]_vars

\* a second timer has been set, its time has passed with no further input
\* event, and searchRecipes has been called with its query
C30_Witness ==
  /\ timers.debounceTimer = 2
  /\ timers.pending = {}
  /\ lastInput = [query |-> <<"b">>, age |-> RECIPE_SEARCH_DEBOUNCE]
  /\ \E call \in searches : call.query = <<"b">>

\* ---------------------------------------------------------------------
\* The two engines with the scheduling the platform gives: a store query
\* that is awaited answers or fails, and the zero-delay timer of a yield
\* fires.  Nothing obliges a caller to call, or to take a result.
\* ---------------------------------------------------------------------
InitLive ==
  /\ InitLong
  /\ dbAvailable = TRUE
  /\ InitIdle
  /\ InitApp
  /\ scoring = NoScoring

\* WF_vars(FM_Resume), with ENABLED <<FM_Resume>>_vars written as what it
\* comes to: the scan waits at a yield (a resumed scan changes fm_pc or
\* scan_i)
FairResume == []<>(fm_pc # "yield") \/ []<><<FM_Resume>>_vars

SpecLive ==
  /\ InitLive
  /\ [][Next]_vars
  /\ WF_vars(FM_Disliked)
  /\ WF_vars(FM_Recipes)
  /\ FairResume
  /\ WF_vars(S_Recipes)

\* the chunks the loop has entered: at a yield and when it was left from
\* within a chunk, scan_i is the start of the last one; when the loop ran
\* out, scan_i is past the list
ChunksEntered ==
  IF fm_pc \in {"yield", "done"} /\ recipesToScan # <<>>
  THEN IF scan_i < Len(recipesToScan) THEN scan_i \div chunkSize + 1
       ELSE scan_i \div chunkSize
  ELSE 0

\* the most chunks the loop may enter
MostChunks == (MAX_RECIPES_TO_SCAN + chunkSize - 1) \div chunkSize

\* C23: a call of findMatchingRecipes or searchRecipes that is under way
\* resolves, and the scan loop enters at most MAX_RECIPES_TO_SCAN /
\* chunkSize chunks (rounded up), so it yields fewer times than that
C23_RunToCompletion ==
  /\ (fm_pc \in {"awaitDisliked", "awaitRecipes", "yield"}) ~> (fm_pc = "done")
  /\ (s_pc = "awaitRecipes") ~> (s_pc = "done")
  /\ [](ChunksEntered <= MostChunks)

\* a scan that yielded, went on to the last chunk the cap allows and resolved
C23_Witness ==
  /\ fm_pc = "done"
  /\ ChunksEntered = MostChunks

====
